---- MODULE Spec2Model ----
(***************************************************************************)
(* HealthWeave backend: the provider invoker (BedrockService) and the      *)
(* analyze handler that calls it.                                          *)
(*                                                                         *)
(* BedrockService.analyzeHealthData calls the primary provider (Bedrock),  *)
(* and on an error classified as "Bedrock unavailable" falls back to the   *)
(* Anthropic API (if a client was constructed) and then to a local Ollama  *)
(* endpoint guarded by an AbortController timer.  Every await of the code  *)
(* is one step of the model; the environment (the three providers, the     *)
(* clock) chooses the outcome of each awaited call.                        *)
(***************************************************************************)
EXTENDS Integers, Sequences, FiniteSets, TLC

VARIABLES
    endpoint,        \* config.aws.endpoint is set (AWS_ENDPOINT)
    anthropicClient, \* BedrockService.anthropicClient is non-null
    modelId,         \* config.bedrock.modelId
    pc,              \* position of the request being handled
    analysisNo,      \* number of analyses started so far
    messages,        \* messages[0].content[0].text of the analysis
    attempts,        \* provider invocations of this analysis, in order
    primaryErr,      \* the error the primary call failed with
    result,          \* value analyzeHealthData returned
    raisedErr,       \* error analyzeHealthData threw
    producer,        \* history: provider whose response carried the text
    cause,           \* history: what ended the tertiary attempt
    timerPending,    \* the setTimeout of invokeOllama is armed
    aborted,         \* controller.signal.aborted
    clock,           \* ms elapsed since invokeOllama armed its timer
    auditLog,        \* actions written by auditService.logEvent
    response,        \* HTTP response the handler sent
    analysisText,    \* the text the handler parses, one character per element
    stage,           \* position of the parse-and-render pipeline
    extracted,       \* what extractSection, extractList and parseFindingRow returned
    report,          \* the AnalysisResult the handler builds
    markdown,        \* report.fullReport given to generatePDF, one block per element
    tokens,          \* what marked.lexer returned
    tokenNo,         \* index of the token the forEach of the renderer is at
    pdfPc,           \* position of the executor of generatePDF
    drawn,           \* what has been drawn on the document, in order
    promise,         \* state of the promise generatePDF returned
    table,           \* items of the reports table
    gsi,             \* items the UserIdIndex of the table holds
    tableInitPromise, \* ReportService.tableInitPromise
    initCount,       \* history: number of initializeTable calls
    calls,           \* the calls made to the report service
    inlineStack,     \* the calls of renderInlineContent in progress, innermost last
    docFont,         \* the font the document draws text in
    runs,            \* the pieces of text drawn by renderInlineContent, in order
    docY,            \* doc.y, the vertical cursor, in points
    pageNo,          \* number of pages of the document
    layoutPc,        \* position of the code that lays out the sections
    placed,          \* history: the parts of section headers drawn, in order
    rendered         \* history: what the earlier calls of generatePDF drew

vars == <<endpoint, anthropicClient, modelId, pc, analysisNo, messages,
          attempts, primaryErr, result, raisedErr, producer, cause,
          timerPending, aborted, clock, auditLog, response,
          analysisText, stage, extracted, report,
          markdown, tokens, tokenNo, pdfPc, drawn, promise,
          table, gsi, tableInitPromise, initCount, calls,
          inlineStack, docFont, runs, docY, pageNo, layoutPc, placed, rendered>>

configVars == <<endpoint, anthropicClient, modelId>>
timerVars == <<timerPending, aborted, clock>>
pipelineVars == <<analysisText, stage, extracted, report>>
pdfVars == <<markdown, tokens, tokenNo, pdfPc, drawn, promise>>
storeVars == <<table, gsi, tableInitPromise, initCount, calls>>
inlineVars == <<inlineStack, docFont, runs>>
pageVars == <<docY, pageNo, layoutPc, placed>>
layoutVars == <<inlineVars, pageVars, rendered>>

\* No inline content is being rendered.
InlineIdle ==
    /\ inlineStack = <<>>
    /\ docFont = "Helvetica"
    /\ runs = <<>>

\* No page is being laid out.
PageIdle ==
    /\ docY = 0
    /\ pageNo = 0
    /\ layoutPc = "off"
    /\ placed = <<>>

(***************************************************************************)
(* Bounds of the model.                                                    *)
(***************************************************************************)
MaxAnalyses == 2
TickMs == 200000
MaxTicks == 5

(***************************************************************************)
(* Program constants.                                                      *)
(***************************************************************************)
OllamaTimeoutMs == 600000

\* Strings the code searches with String.includes are sequences of tokens;
\* Includes(s, t) is s.includes(t) for a token t.
Includes(s, t) == \E i \in DOMAIN s : s[i] = t

\* Model identifiers.
DefaultModelId == <<"mistral">>
ClaudeBedrockModelId == <<"anthropic", ".", "claude", "-3-sonnet-20240229-v1:0">>
ModelIds == {DefaultModelId, ClaudeBedrockModelId}
AnthropicModel == <<"claude", "-3-5-sonnet-20241022">>
OllamaModel == <<"mistral", ":latest">>
NoModel == <<>>

SystemPrompt == <<"SYSTEM">>
UserMessage == <<"USER">>
AnalysisTexts == {"## AI Summary", "free text"}

(***************************************************************************)
(* Errors are records with the fields the code reads.  httpStatusCode 0,   *)
(* and the empty string or sequence, stand for an undefined field.         *)
(***************************************************************************)
Err(name, status, type, code, message, causeMessage) ==
    [name |-> name, httpStatusCode |-> status, type |-> type, code |-> code,
     message |-> message, causeMessage |-> causeMessage]

NewError(message) == Err("Error", 0, "", "", message, <<>>)

NoError == Err("", 0, "", "", <<>>, <<>>)

\* Errors BedrockRuntimeClient.send can reject with.
NotEmulated ==
    Err("InternalFailure", 501, "InternalFailure", "",
        <<"The API for service", "bedrock-runtime", "has", "not yet been emulated">>, <<>>)
Http501Only == Err("NotImplemented", 501, "", "", <<"Not Implemented">>, <<>>)
TypeOnly == Err("UnknownError", 500, "InternalFailure", "", <<"UnknownError">>, <<>>)
HostNotFound ==
    Err("Error", 0, "", "ENOTFOUND",
        <<"getaddrinfo ENOTFOUND", "bedrock-runtime", ".us-east-1.amazonaws.com">>, <<>>)
ValidationException ==
    Err("ValidationException", 400, "", "", <<"Malformed input request">>, <<>>)
AccessDenied ==
    Err("AccessDeniedException", 403, "", "", <<"User is not authorized">>, <<>>)
Throttling ==
    Err("ThrottlingException", 429, "", "", <<"Too many requests">>, <<>>)

SendErrors == {NotEmulated, Http501Only, TypeOnly, HostNotFound,
               ValidationException, AccessDenied, Throttling}

NoContentInBedrock == NewError(<<"No content in Bedrock response">>)
FailedToAnalyze == NewError(<<"Failed to analyze health data">>)

\* The extraction results before the handler has parsed a text.
NoExtracted == [section |-> <<>>, keyFindings |-> <<>>, recommendations |-> <<>>,
                rows |-> <<>>]

\* The report before the handler has built one.
NoReport == [summary |-> <<>>, keyFindings |-> <<>>, recommendations |-> <<>>,
             fullReport |-> <<>>]

(***************************************************************************)
(* BedrockService.isBedrockUnavailable                                     *)
(***************************************************************************)
isBedrockUnavailableNoEndpoint(error) ==
    \/ error.name = "InternalFailure"
    \/ error.httpStatusCode = 501
    \/ error.type = "InternalFailure"
    \/ Includes(error.message, "bedrock-runtime")
    \/ Includes(error.message, "not yet been emulated")

isBedrockUnavailable(error) ==
    /\ endpoint
    /\ \/ error.name = "InternalFailure"
       \/ error.httpStatusCode = 501
       \/ error.type = "InternalFailure"
       \/ Includes(error.message, "bedrock-runtime")
       \/ Includes(error.message, "not yet been emulated")


(***************************************************************************)
(* BedrockService.invokeModel: the request body.  For a Claude-style model *)
(* the system prompt travels in requestBody.system; for any other model it *)
(* is written in front of messages[0].content[0].text, and requestBody     *)
(* .messages is the caller's array.                                        *)
(***************************************************************************)
ClaudeStyle(id) == Includes(id, "claude") \/ Includes(id, "anthropic")

invokeModelSystem == IF ClaudeStyle(modelId) THEN SystemPrompt ELSE <<>>

invokeModelMessages(msgs) ==
    IF ClaudeStyle(modelId) THEN msgs ELSE SystemPrompt \o <<"\n\n">> \o msgs

\* responseBody.model as the provider reports it: absent, a string, or a
\* value that is not a string.
ReportedModels ==
    {[kind |-> "undefined", value |-> NoModel],
     [kind |-> "string", value |-> ClaudeBedrockModelId],
     [kind |-> "object", value |-> NoModel]}

invokeModelUsed(reported) ==
    IF reported.kind = "string" THEN reported.value ELSE modelId

(***************************************************************************)
(* Attempts: one record per provider invocation of the current analysis,   *)
(* with what the provider was sent and how the invocation ended.           *)
(***************************************************************************)
Attempt(provider, system, user) ==
    [provider |-> provider, outcome |-> "pending", system |-> system, user |-> user]

Finish(att, outcome) ==
    [att EXCEPT ![Len(att)].outcome = outcome]

Providers == {"primary", "secondary", "tertiary"}

(***************************************************************************)
(* BedrockService.analyzeHealthData, the catch block: what follows a       *)
(* failed primary call.                                                    *)
(***************************************************************************)
CatchPrimaryAlwaysFallback(error) == "fallback"

CatchPrimary(error) ==
    IF isBedrockUnavailable(error) THEN "fallback" ELSE "throw"

(***************************************************************************)
(* BedrockService.handleBedrockFallback: the provider tried first, and     *)
(* what follows a failed Anthropic call (the catch falls through).         *)
(***************************************************************************)
FirstFallbackSkipsAnthropic == "tertiary"

FirstFallback == IF anthropicClient THEN "secondary" ELSE "tertiary"

AfterAnthropicFailureRetries == "secondary"

AfterAnthropicFailureThrows == "throw"

AfterAnthropicFailure == "tertiary"

(***************************************************************************)
(* BedrockService.invokeOllama: reading the response and the catch block.  *)
(***************************************************************************)
OllamaStatuses == {200, 404, 500}

ResponseOk(status) == status >= 200 /\ status <= 299

TimedOutMessage == "AI processing timed out after 10 minutes. Try uploading fewer documents."
NotRunningMessage == "Ollama is not running. Start it with: ollama serve"
ConnectionFailedMessage == "Ollama connection failed: "

OllamaHttpError(status) ==
    IF status = 0 \/ status = 500
    THEN NewError(<<"Ollama is not running. Install from https://ollama.ai and run: ollama pull llama3.2">>)
    ELSE NewError(<<"Ollama API error: ", "statusText">>)

\* What fetch can reject with when the endpoint cannot be reached.
UndiciRefused ==
    Err("TypeError", 0, "", "", <<"fetch failed">>, <<"connect ECONNREFUSED 127.0.0.1:11434">>)
NodeFetchRefused ==
    Err("FetchError", 0, "", "ECONNREFUSED",
        <<"request to http://localhost:11434/api/chat failed">>, <<>>)
UndiciNoCause == Err("TypeError", 0, "", "", <<"fetch failed">>, <<>>)
FetchRejections == {UndiciRefused, NodeFetchRefused, UndiciNoCause}

\* What fetch rejects with when controller.abort() is called.
AbortError == Err("AbortError", 0, "", "", <<"This operation was aborted">>, <<>>)

\* What response.json() can reject with.
JsonSyntaxError == Err("SyntaxError", 0, "", "", <<"Unexpected token < in JSON">>, <<>>)

OllamaData ==
    {[content |-> c, response |-> r, text |-> "", model |-> m] :
        c \in {"", "## AI Summary"}, r \in {"", "free text"},
        m \in {NoModel, OllamaModel, <<"mistral", ":7b-instruct">>}}

OllamaText(data) ==
    IF data.content # "" THEN data.content
    ELSE IF data.response # "" THEN data.response
    ELSE IF data.text # "" THEN data.text
    ELSE ""

OllamaModelUsedFromConfig(data) == modelId

OllamaModelUsed(data) == IF data.model # NoModel THEN data.model ELSE OllamaModel

OllamaCatchNoAbortBranch(error) ==
    IF error.code = "ECONNREFUSED" THEN NewError(<<NotRunningMessage>>)
    ELSE IF Includes(error.message, "fetch failed")
    THEN NewError(<<ConnectionFailedMessage>>
                  \o (IF error.causeMessage # <<>> THEN error.causeMessage ELSE error.message)
                  \o <<". Make sure Ollama is running.">>)
    ELSE NewError(<<"AI analysis failed: ">> \o error.message)

OllamaCatch(error) ==
    IF error.name = "AbortError" THEN NewError(<<TimedOutMessage>>)
    ELSE IF error.code = "ECONNREFUSED" THEN NewError(<<NotRunningMessage>>)
    ELSE IF Includes(error.message, "fetch failed")
    THEN NewError(<<ConnectionFailedMessage>>
                  \o (IF error.causeMessage # <<>> THEN error.causeMessage ELSE error.message)
                  \o <<". Make sure Ollama is running.">>)
    ELSE NewError(<<"AI analysis failed: ">> \o error.message)

Init ==
    /\ endpoint \in BOOLEAN
    /\ anthropicClient \in BOOLEAN
    /\ modelId \in ModelIds
    /\ pc = "idle"
    /\ analysisNo = 0
    /\ messages = <<>>
    /\ attempts = <<>>
    /\ primaryErr = NoError
    /\ result = [analysisText |-> "", modelUsed |-> <<>>]
    /\ raisedErr = NoError
    /\ producer = "none"
    /\ cause = "none"
    /\ timerPending = FALSE
    /\ aborted = FALSE
    /\ clock = 0
    /\ auditLog = <<>>
    /\ response = [status |-> 0]
    /\ analysisText = <<>>
    /\ stage = "off"
    /\ extracted = NoExtracted
    /\ report = NoReport
    /\ markdown = <<>>
    /\ tokens = <<>>
    /\ tokenNo = 0
    /\ pdfPc = "off"
    /\ drawn = <<>>
    /\ promise = "none"
    /\ table = {}
    /\ gsi = {}
    /\ tableInitPromise = "null"
    /\ initCount = 0
    /\ InlineIdle
    /\ PageIdle
    /\ rendered = <<>>
    /\ calls = <<>>

(***************************************************************************)
(* AuditService.logEvent: the put may fail; the failure is swallowed.      *)
(***************************************************************************)
logEvent(log, action, putOk) == IF putOk THEN Append(log, action) ELSE log

\* Whether the promise of logEvent rejects: the catch block around the put
\* logs the error and returns.
logEventRejectsOnPutFailure(putOk) == ~putOk

logEventRejects(putOk) == FALSE

\* What client.send rejects with when the put fails.
PutRejected == Err("ResourceNotFoundException", 400, "", "", <<"Requested resource not found">>, <<>>)

\* The handler's promise rejects before a response is sent.
HandlerRejects ==
    /\ pc' = "crashed"
    /\ response' = [status |-> 0]
    /\ UNCHANGED auditLog

NoResult == [analysisText |-> "", modelUsed |-> NoModel]

ErrorResponse(message) ==
    [status |-> 500, success |-> FALSE, model |-> NoModel, message |-> message]

(***************************************************************************)
(* Entering the next stage of the chain: start a provider call (and leave  *)
(* the step at its await), or throw err to the caller of                   *)
(* analyzeHealthData.  att is the attempt list with the previous attempt   *)
(* finished, msgs the message list as the previous call left it.           *)
(***************************************************************************)
Enter(target, att, msgs, err) ==
    /\ messages' = msgs
    /\ CASE target = "secondary" ->
              \* invokeAnthropicDirect up to messages.create
              /\ pc' = "secondary"
              /\ attempts' = Append(att, Attempt("secondary", SystemPrompt, msgs))
              /\ raisedErr' = NoError
              /\ UNCHANGED timerVars
         [] target = "tertiary" ->
              \* invokeOllama up to fetch: the timer is armed
              /\ pc' = "ollamaFetch"
              /\ attempts' = Append(att, Attempt("tertiary", SystemPrompt, msgs))
              /\ raisedErr' = NoError
              /\ timerPending' = TRUE
              /\ aborted' = FALSE
              /\ clock' = 0
         [] target = "throw" ->
              /\ pc' = "threw"
              /\ attempts' = att
              /\ raisedErr' = err
              /\ UNCHANGED timerVars

(***************************************************************************)
(* analyzeDocuments, from the start of the handler to the first provider   *)
(* call: audit DOCUMENT_UPLOAD, validate, upload and extract every file,   *)
(* then analyzeHealthData builds the prompt and invokeModel sends it.      *)
(***************************************************************************)
Request(nFiles, uploadOk, putOk1, putOk2) ==
    /\ pc \in {"idle", "responded"}
    /\ analysisNo < MaxAnalyses
    /\ analysisNo' = analysisNo + 1
    /\ primaryErr' = NoError
    /\ result' = NoResult
    /\ raisedErr' = NoError
    /\ producer' = "none"
    /\ cause' = "none"
    /\ timerPending' = FALSE
    /\ aborted' = FALSE
    /\ clock' = 0
    /\ UNCHANGED <<configVars, pipelineVars, pdfVars, layoutVars, storeVars>>
    /\ IF logEventRejects(putOk1)
       THEN /\ HandlerRejects
            /\ messages' = <<>>
            /\ attempts' = <<>>
       ELSE IF nFiles = 0
       THEN /\ auditLog' = logEvent(auditLog, "DOCUMENT_UPLOAD", putOk1)
            /\ response' = [status |-> 400, success |-> FALSE, model |-> NoModel,
                            message |-> <<"No files uploaded">>]
            /\ pc' = "responded"
            /\ messages' = <<>>
            /\ attempts' = <<>>
       ELSE IF ~uploadOk
       THEN /\ IF logEventRejects(putOk2)
               THEN /\ pc' = "crashed"
                    /\ response' = [status |-> 0]
                    /\ auditLog' = logEvent(auditLog, "DOCUMENT_UPLOAD", putOk1)
               ELSE /\ auditLog' = logEvent(logEvent(auditLog, "DOCUMENT_UPLOAD", putOk1),
                                            "ANALYSIS_FAILED", putOk2)
                    /\ response' = ErrorResponse(<<"Failed to upload file">>)
                    /\ pc' = "responded"
            /\ messages' = <<>>
            /\ attempts' = <<>>
       ELSE /\ auditLog' = logEvent(auditLog, "DOCUMENT_UPLOAD", putOk1)
            /\ response' = [status |-> 0]
            /\ pc' = "primary"
            /\ messages' = invokeModelMessages(UserMessage)
            /\ attempts' = <<Attempt("primary", invokeModelSystem,
                                     invokeModelMessages(UserMessage))>>

(***************************************************************************)
(* The primary call returns content: invokeModel and analyzeHealthData     *)
(* return.                                                                 *)
(***************************************************************************)
PrimarySucceeds(text, reported) ==
    /\ pc = "primary"
    /\ pc' = "returned"
    /\ attempts' = Finish(attempts, "ok")
    /\ result' = [analysisText |-> text, modelUsed |-> invokeModelUsed(reported)]
    /\ producer' = "primary"
    /\ UNCHANGED <<configVars, pipelineVars, pdfVars, layoutVars, storeVars, analysisNo, messages, primaryErr, raisedErr, cause,
                   timerVars, auditLog, response>>

(***************************************************************************)
(* The primary call fails (send rejects, or the response has no content):  *)
(* the catch block of analyzeHealthData classifies the error and either    *)
(* starts the first fallback provider or throws.                           *)
(***************************************************************************)
PrimaryFails(error) ==
    /\ pc = "primary"
    /\ primaryErr' = error
    /\ IF CatchPrimary(error) = "fallback"
       THEN Enter(FirstFallback, Finish(attempts, "failed"), messages, NoError)
       ELSE Enter("throw", Finish(attempts, "failed"), messages, FailedToAnalyze)
    /\ UNCHANGED <<configVars, pipelineVars, pdfVars, layoutVars, storeVars, analysisNo, result, producer, cause, auditLog, response>>

(***************************************************************************)
(* invokeAnthropicDirect returns text / fails.  A failure is caught in     *)
(* handleBedrockFallback, which goes on to invokeOllama.                   *)
(***************************************************************************)
AnthropicSucceeds(text) ==
    /\ pc = "secondary"
    /\ pc' = "returned"
    /\ attempts' = Finish(attempts, "ok")
    /\ result' = [analysisText |-> text, modelUsed |-> AnthropicModel]
    /\ producer' = "secondary"
    /\ UNCHANGED <<configVars, pipelineVars, pdfVars, layoutVars, storeVars, analysisNo, messages, primaryErr, raisedErr, cause,
                   timerVars, auditLog, response>>

AnthropicErrors ==
    {Err("AuthenticationError", 401, "", "", <<"invalid x-api-key">>, <<>>),
     NewError(<<"No content in Anthropic response">>)}

AnthropicFails(error) ==
    /\ pc = "secondary"
    /\ Enter(AfterAnthropicFailure, Finish(attempts, "failed"), messages, error)
    /\ UNCHANGED <<configVars, pipelineVars, pdfVars, layoutVars, storeVars, analysisNo, primaryErr, result, producer, cause,
                   auditLog, response>>

(***************************************************************************)
(* invokeOllama.  elapsed time is counted while the attempt or its timer   *)
(* is pending; a pending timer fires when its delay has elapsed.           *)
(***************************************************************************)
OllamaPending == pc \in {"ollamaFetch", "ollamaBody"}

Tick ==
    /\ OllamaPending \/ timerPending
    /\ clock < MaxTicks * TickMs
    /\ ~(timerPending /\ clock >= OllamaTimeoutMs)
    /\ clock' = clock + TickMs
    /\ UNCHANGED <<configVars, pipelineVars, pdfVars, layoutVars, storeVars, pc, analysisNo, messages, attempts, primaryErr, result,
                   raisedErr, producer, cause, timerPending, aborted, auditLog, response>>

\* fetch resolves with a response: clearTimeout, then the status check.
OllamaFetchResolves(status) ==
    /\ pc = "ollamaFetch"
    /\ timerPending' = FALSE
    /\ IF ResponseOk(status)
       THEN /\ pc' = "ollamaBody"
            /\ UNCHANGED <<attempts, raisedErr, cause>>
       ELSE /\ pc' = "threw"
            /\ attempts' = Finish(attempts, "failed")
            /\ raisedErr' = OllamaCatch(OllamaHttpError(status))
            /\ cause' = "http"
    /\ UNCHANGED <<configVars, pipelineVars, pdfVars, layoutVars, storeVars, analysisNo, messages, primaryErr, result, producer,
                   aborted, clock, auditLog, response>>

\* fetch rejects because the endpoint cannot be reached: the catch block.
OllamaFetchRejects(error) ==
    /\ pc = "ollamaFetch"
    /\ pc' = "threw"
    /\ attempts' = Finish(attempts, "failed")
    /\ raisedErr' = OllamaCatch(error)
    /\ cause' = "unreachable"
    /\ UNCHANGED <<configVars, pipelineVars, pdfVars, layoutVars, storeVars, analysisNo, messages, primaryErr, result, producer,
                   timerVars, auditLog, response>>

\* The timer callback: controller.abort().  A fetch still awaited rejects
\* with AbortError and the catch block runs.
OllamaTimerFires ==
    /\ timerPending
    /\ clock >= OllamaTimeoutMs
    /\ timerPending' = FALSE
    /\ aborted' = TRUE
    /\ IF pc = "ollamaFetch"
       THEN /\ pc' = "threw"
            /\ attempts' = Finish(attempts, "failed")
            /\ raisedErr' = OllamaCatch(AbortError)
            /\ cause' = "timeout"
       ELSE UNCHANGED <<pc, attempts, raisedErr, cause>>
    /\ UNCHANGED <<configVars, pipelineVars, pdfVars, layoutVars, storeVars, analysisNo, messages, primaryErr, result, producer,
                   clock, auditLog, response>>

\* response.json() resolves: the text is picked and returned, or is empty.
OllamaBodyResolves(data) ==
    /\ pc = "ollamaBody"
    /\ IF OllamaText(data) # ""
       THEN /\ pc' = "returned"
            /\ attempts' = Finish(attempts, "ok")
            /\ result' = [analysisText |-> OllamaText(data),
                          modelUsed |-> OllamaModelUsed(data)]
            /\ producer' = "tertiary"
            /\ UNCHANGED <<raisedErr, cause>>
       ELSE /\ pc' = "threw"
            /\ attempts' = Finish(attempts, "failed")
            /\ raisedErr' = OllamaCatch(NewError(<<"No content in Ollama response">>))
            /\ cause' = "empty"
            /\ UNCHANGED <<result, producer>>
    /\ UNCHANGED <<configVars, pipelineVars, pdfVars, layoutVars, storeVars, analysisNo, messages, primaryErr, timerVars,
                   auditLog, response>>

\* response.json() rejects.
OllamaBodyRejects ==
    /\ pc = "ollamaBody"
    /\ pc' = "threw"
    /\ attempts' = Finish(attempts, "failed")
    /\ raisedErr' = OllamaCatch(JsonSyntaxError)
    /\ cause' = "body"
    /\ UNCHANGED <<configVars, pipelineVars, pdfVars, layoutVars, storeVars, analysisNo, messages, primaryErr, result, producer,
                   timerVars, auditLog, response>>

(***************************************************************************)
(* analyzeDocuments after analyzeHealthData returned: the report is built  *)
(* and saved, ANALYSIS_COMPLETE is audited and the response is sent; a     *)
(* failed save goes to the catch block.                                    *)
(***************************************************************************)
ResponseModel == OllamaModel

SuccessResponse ==
    [status |-> 200, success |-> TRUE, model |-> ResponseModel, message |-> <<>>]

\* An item of the reports table, with the attributes the service reads.
Item(id, userId, createdAt) == [id |-> id, userId |-> userId, createdAt |-> createdAt]

\* reportService.saveReport run to its end: ensureTable, then the put.
SaveReportEffect(saveOk) ==
    /\ tableInitPromise' = IF endpoint THEN "resolved" ELSE tableInitPromise
    /\ initCount' = IF endpoint /\ tableInitPromise = "null" THEN initCount + 1
                    ELSE initCount
    /\ table' = IF saveOk THEN table \cup {Item(analysisNo, "test-user", analysisNo)}
                ELSE table
    /\ UNCHANGED <<gsi, calls>>

HandlerSaveAuditsFirst(saveOk, putOk1, putOk2) ==
    /\ pc = "returned"
    /\ SaveReportEffect(saveOk)
    /\ pc' = "responded"
    /\ IF saveOk
       THEN /\ auditLog' = logEvent(auditLog, "ANALYSIS_COMPLETE", putOk1)
            /\ response' = SuccessResponse
       ELSE /\ auditLog' = logEvent(logEvent(auditLog, "ANALYSIS_COMPLETE", putOk1),
                                    "ANALYSIS_FAILED", putOk2)
            /\ response' = ErrorResponse(<<"Failed to save report">>)
    /\ UNCHANGED <<configVars, pipelineVars, pdfVars, layoutVars, analysisNo, messages, attempts,
                   primaryErr, result, raisedErr, producer, cause, timerVars>>

HandlerSave(saveOk, putOk1, putOk2) ==
    /\ pc = "returned"
    /\ SaveReportEffect(saveOk)
    /\ IF saveOk /\ ~logEventRejects(putOk1)
       THEN /\ auditLog' = logEvent(auditLog, "ANALYSIS_COMPLETE", putOk1)
            /\ response' = SuccessResponse
            /\ pc' = "responded"
       ELSE IF logEventRejects(putOk2)
       THEN HandlerRejects
       ELSE /\ auditLog' = logEvent(auditLog, "ANALYSIS_FAILED", putOk2)
            /\ response' = ErrorResponse(IF saveOk THEN PutRejected.message
                                         ELSE <<"Failed to save report">>)
            /\ pc' = "responded"
    /\ UNCHANGED <<configVars, pipelineVars, pdfVars, layoutVars, analysisNo, messages, attempts,
                   primaryErr, result, raisedErr, producer, cause, timerVars>>

\* analyzeDocuments, the catch block, after analyzeHealthData threw.
HandlerCatch(putOk) ==
    /\ pc = "threw"
    /\ IF logEventRejects(putOk)
       THEN HandlerRejects
       ELSE /\ auditLog' = logEvent(auditLog, "ANALYSIS_FAILED", putOk)
            /\ response' = ErrorResponse(raisedErr.message)
            /\ pc' = "responded"
    /\ UNCHANGED <<configVars, pipelineVars, pdfVars, layoutVars, storeVars, analysisNo, messages, attempts, primaryErr, result,
                   raisedErr, producer, cause, timerVars>>

Next ==
    \/ \E nFiles \in 0..1, uploadOk \in BOOLEAN, putOk1 \in BOOLEAN, putOk2 \in BOOLEAN :
          Request(nFiles, uploadOk, putOk1, putOk2)
    \/ \E text \in AnalysisTexts, reported \in ReportedModels : PrimarySucceeds(text, reported)
    \/ \E error \in SendErrors \cup {NoContentInBedrock} : PrimaryFails(error)
    \/ \E text \in AnalysisTexts : AnthropicSucceeds(text)
    \/ \E error \in AnthropicErrors : AnthropicFails(error)
    \/ Tick
    \/ \E status \in OllamaStatuses : OllamaFetchResolves(status)
    \/ \E error \in FetchRejections : OllamaFetchRejects(error)
    \/ OllamaTimerFires
    \/ \E data \in OllamaData : OllamaBodyResolves(data)
    \/ OllamaBodyRejects
    \/ \E saveOk \in BOOLEAN, putOk1 \in BOOLEAN, putOk2 \in BOOLEAN :
          HandlerSave(saveOk, putOk1, putOk2)
    \/ \E putOk \in BOOLEAN : HandlerCatch(putOk)

Spec == Init /\ [][Next]_vars
(***************************************************************************)
(* Vocabulary of the properties.                                           *)
(***************************************************************************)
Attempted(p) == \E i \in DOMAIN attempts : attempts[i].provider = p

Failed(p) ==
    \E i \in DOMAIN attempts : attempts[i].provider = p /\ attempts[i].outcome = "failed"

PrimaryFailed == Len(attempts) >= 1 /\ attempts[1].outcome = "failed"

PrimaryUnavailable == PrimaryFailed /\ isBedrockUnavailable(primaryErr)

PrimaryRejected == PrimaryFailed /\ ~isBedrockUnavailable(primaryErr)

Rank(p) == CASE p = "primary" -> 1 [] p = "secondary" -> 2 [] p = "tertiary" -> 3

Configured(p) == p = "secondary" => anthropicClient

\* C1: when the primary call fails with an error that is not classified as
\* provider-unavailable, neither the secondary nor the tertiary provider is
\* invoked in that analysis.
C1_NoFallbackOnRejected ==
    PrimaryRejected => ~Attempted("secondary") /\ ~Attempted("tertiary")

C1_Witness ==
    /\ pc = "threw"
    /\ PrimaryRejected
    /\ endpoint
    /\ anthropicClient
    /\ primaryErr = ValidationException

\* C2: when the primary call fails with an error that is not classified as
\* provider-unavailable, the error analyzeHealthData raises is the primary's
\* original error, unchanged.
C2_OriginalErrorPropagates ==
    (pc = "threw" /\ PrimaryRejected) => raisedErr = primaryErr

\* C3: after a primary failure classified as unavailable, the secondary is
\* the next provider attempted if it is configured; the tertiary is attempted
\* exactly when the secondary is not configured or its attempt failed; and
\* an error is raised only by a failed tertiary attempt, never by a missing
\* or failed secondary.
C3_FallbackOrder ==
    PrimaryUnavailable =>
        /\ anthropicClient => (Len(attempts) >= 2 /\ attempts[2].provider = "secondary")
        /\ Attempted("tertiary") <=> (~anthropicClient \/ Failed("secondary"))
        /\ raisedErr # NoError =>
              /\ attempts[Len(attempts)].provider = "tertiary"
              /\ attempts[Len(attempts)].outcome = "failed"

C3_Witness ==
    /\ PrimaryUnavailable
    /\ Len(attempts) = 3
    /\ attempts[2].provider = "secondary"
    /\ attempts[2].outcome = "failed"
    /\ attempts[3].provider = "tertiary"

\* C4: within one analysis the providers are invoked in the order primary,
\* secondary, tertiary, each at most once; a provider is started only after
\* the previous attempt has finished, and none is started after a success.
C4_OrderedOnceSequential ==
    /\ \A i, j \in DOMAIN attempts :
          i < j => Rank(attempts[i].provider) < Rank(attempts[j].provider)
    /\ \A i \in DOMAIN attempts : i < Len(attempts) => attempts[i].outcome = "failed"

C4_Witness ==
    /\ Len(attempts) = 3
    /\ attempts[3].outcome = "ok"
    /\ pc = "returned"

AllConfiguredFailed == \A p \in Providers : Configured(p) => Failed(p)

\* C5 (as claimed): analyzeHealthData raises an error only if every
\* configured provider has been attempted and has failed in that analysis.
C5_RaisesOnlyWhenAllFailed ==
    pc = "threw" => AllConfiguredFailed

\* C5 (amended): analyzeHealthData raises an error only if the primary failed
\* with an error not classified as unavailable and no other provider was
\* attempted, or every configured provider has been attempted and has failed.
C5_RaisesOnlyWhenRejectedOrAllFailed ==
    pc = "threw" =>
        \/ PrimaryRejected /\ Len(attempts) = 1
        \/ AllConfiguredFailed

C5_Witness ==
    /\ pc = "threw"
    /\ anthropicClient
    /\ Failed("primary") /\ Failed("secondary") /\ Failed("tertiary")

\* C6: without a configured local AWS endpoint no primary error, not even
\* HTTP 501 or InternalFailure, leads to a fallback attempt: the analysis
\* ends with the primary's failure.
C6_NoFallbackWithoutEndpoint ==
    (PrimaryFailed /\ ~endpoint) =>
        /\ ~Attempted("secondary")
        /\ ~Attempted("tertiary")
        /\ raisedErr # NoError

C6_Witness ==
    /\ ~endpoint
    /\ pc = "threw"
    /\ primaryErr = NotEmulated
    /\ Len(attempts) = 1

OllamaModelNames == {OllamaModel} \cup {d.model : d \in {x \in OllamaData : x.model # NoModel}}

\* C7: if the primary call fails with a recognised unavailable signature and
\* the analysis returns a result, the result's modelUsed is the identifier of
\* the secondary or of the tertiary provider, and is not the primary's.
C7_FallbackIdentifier ==
    (PrimaryUnavailable /\ result # NoResult) =>
        /\ producer = "secondary" => result.modelUsed = AnthropicModel
        /\ producer = "tertiary" => result.modelUsed \in OllamaModelNames
        /\ producer \in {"secondary", "tertiary"}
        /\ result.modelUsed # modelId

C7_Witness ==
    /\ PrimaryUnavailable
    /\ pc = "returned"
    /\ producer = "tertiary"
    /\ result.modelUsed = OllamaModel

\* C8: the model identifier in the response to an analysis request names the
\* provider that produced the analysis text of that request.
C8_ResponseNamesProducer ==
    (pc = "responded" /\ response.status = 200) => response.model = result.modelUsed

\* C9: a tertiary attempt never stays pending longer than its timeout.
C9_TertiaryBoundedByTimeout ==
    OllamaPending => clock <= OllamaTimeoutMs

IsTimeoutReport(error) == Includes(error.message, TimedOutMessage)

IsUnreachableReport(error) ==
    \/ Includes(error.message, NotRunningMessage)
    \/ Includes(error.message, ConnectionFailedMessage)

\* C10: a tertiary attempt cancelled by the timeout raises the timed-out
\* error and not an unreachable error; an attempt that failed because the
\* endpoint could not be reached never raises the timed-out error.
C10_TimeoutDistinctFromUnreachable ==
    /\ cause = "timeout" => IsTimeoutReport(raisedErr) /\ ~IsUnreachableReport(raisedErr)
    /\ cause = "unreachable" => IsUnreachableReport(raisedErr) /\ ~IsTimeoutReport(raisedErr)

C10_Witness ==
    /\ pc = "threw"
    /\ cause = "timeout"
    /\ clock >= OllamaTimeoutMs
    /\ raisedErr = NewError(<<TimedOutMessage>>)
(***************************************************************************)
(* Section extraction (extractSection, extractList) and the parse stage of *)
(* analyzeDocuments.                                                       *)
(*                                                                         *)
(* A text is a sequence with one character per element.  The header names  *)
(* the handler searches for are single elements ("Key Findings"): no       *)
(* pattern of the code can match a part of one.  Every regular expression  *)
(* of the code is an operator that computes the match the expression       *)
(* finds (leftmost, with its greedy and lazy quantifiers).                 *)
(***************************************************************************)
Whitespace == {" ", "\n"}
DigitChars == {"1", "2", "3"}
\* "U+2022" is the bullet character.
BulletChars == {"-", "*", "U+2022"}
NULL == <<"<null>">>

\* With(x, LAMBDA v : e) is LET v == x IN e, with x evaluated once.
With(x, F(_)) == CHOOSE r \in {F(v) : v \in {x}} : TRUE

MinOf(S) == With(S, LAMBDA V : CHOOSE x \in V : \A y \in V : x <= y)
MaxOf(S) == With(S, LAMBDA V : CHOOSE x \in V : \A y \in V : x >= y)

\* t.substring(i-1, j): the elements i..j of t (empty when j < i).
Sub(t, i, j) == IF j < i THEN <<>> ELSE SubSeq(t, i, j)

\* p occurs in t at position i.
StartsWith(t, i, p) ==
    /\ i >= 1
    /\ i + Len(p) - 1 <= Len(t)
    /\ \A k \in 1..Len(p) : t[i + k - 1] = p[k]

\* End of the run of characters of S that starts at i: the first position
\* from i on that holds no character of S (Len(t) + 1 at the end of t).
RECURSIVE SkipIn(_, _, _)
SkipIn(t, i, S) ==
    IF i > Len(t) \/ t[i] \notin S THEN i ELSE SkipIn(t, i + 1, S)

\* End of the run of characters other than those of S that starts at i.
RECURSIVE SkipNotIn(_, _, _)
SkipNotIn(t, i, S) ==
    IF i > Len(t) \/ t[i] \in S THEN i ELSE SkipNotIn(t, i + 1, S)

\* i is the start of a line of t (^ under the m flag).
LineStart(t, i) == i = 1 \/ (i >= 2 /\ i <= Len(t) + 1 /\ t[i - 1] = "\n")

\* The first position from i on where p occurs in t, Len(t) + 1 if none.
RECURSIVE FirstAt(_, _, _)
FirstAt(t, i, p) ==
    IF i > Len(t) \/ StartsWith(t, i, p) THEN i ELSE FirstAt(t, i + 1, p)

\* String.prototype.trim
Trim(t) ==
    With({i \in 1..Len(t) : t[i] \notin Whitespace},
         LAMBDA keep : IF keep = {} THEN <<>>
                       ELSE SubSeq(t, MinOf(keep), MaxOf(keep)))

\* t.split('\n')
RECURSIVE SplitLines(_)
SplitLines(t) ==
    With(SkipNotIn(t, 1, {"\n"}),
         LAMBDA n : IF n > Len(t) THEN <<t>>
                    ELSE <<Sub(t, 1, n - 1)>> \o With(Sub(t, n + 1, Len(t)), SplitLines))

\* lines.join('\n')
RECURSIVE JoinLines(_)
JoinLines(ls) ==
    IF ls = <<>> THEN <<>>
    ELSE IF Len(ls) = 1 THEN ls[1]
    ELSE ls[1] \o <<"\n">> \o JoinLines(Tail(ls))

(***************************************************************************)
(* extractSection, first pattern:                                          *)
(*   ##+\s+HEADER[\s\S]*?\n([\s\S]*?)(?=\n##|$)                            *)
(* The match starts at the leftmost run of two or more # that is followed  *)
(* by whitespace, the header and, somewhere later, a newline.  The group   *)
(* starts after that newline and ends before the first "\n##" or at the    *)
(* end of the text.                                                        *)
(***************************************************************************)
MarkdownHeadingAt(t, s, header) ==
    LET e == SkipIn(t, s, {"#"})
        w == SkipIn(t, e, Whitespace)
    IN  /\ StartsWith(t, s, <<"#", "#">>)
        /\ w > e
        /\ StartsWith(t, w, header)
        /\ SkipNotIn(t, w + Len(header), {"\n"}) <= Len(t)

MarkdownStarts(t, header) == {s \in 1..Len(t) : MarkdownHeadingAt(t, s, header)}

MarkdownGroup(t, header) ==
    With(MinOf(MarkdownStarts(t, header)), LAMBDA s :
    With(SkipNotIn(t, SkipIn(t, SkipIn(t, s, {"#"}), Whitespace) + Len(header), {"\n"}) + 1,
         LAMBDA from : Sub(t, from, FirstAt(t, from, <<"\n", "#", "#">>) - 1)))

\* content.replace(/^##+.*$/m, ''): the first line that starts with ## loses
\* its characters.
RemoveFirstHeadingLine(t) ==
    With({q \in 1..Len(t) : LineStart(t, q) /\ StartsWith(t, q, <<"#", "#">>)},
         LAMBDA starts :
             IF starts = {} THEN t
             ELSE With(MinOf(starts),
                       LAMBDA q : Sub(t, 1, q - 1) \o Sub(t, SkipNotIn(t, q, {"\n"}), Len(t))))

(***************************************************************************)
(* extractSection, second pattern:                                         *)
(*   \*\*HEADER\*\*:?\s*([\s\S]*?)(?=\n\*\*|$)                             *)
(***************************************************************************)
BoldStarts(t, header) ==
    {s \in 1..Len(t) : StartsWith(t, s, <<"*", "*">> \o header \o <<"*", "*">>)}

BoldGroup(t, header) ==
    With(MinOf(BoldStarts(t, header)) + Len(header) + 4, LAMBDA a :
    With(SkipIn(t, IF StartsWith(t, a, <<":">>) THEN a + 1 ELSE a, Whitespace),
         LAMBDA from : Sub(t, from, FirstAt(t, from, <<"\n", "*", "*">>) - 1)))

(***************************************************************************)
(* extractSection, third pattern (flags im):                               *)
(*   ^HEADER:?\s*([\s\S]*?)(?=\n[A-Z][^:]*:|$)                             *)
(* Under the m flag $ holds before every newline, so the lazy group ends   *)
(* at the end of the line it starts on.                                    *)
(***************************************************************************)
PlainStarts(t, header) ==
    {s \in 1..Len(t) : LineStart(t, s) /\ StartsWith(t, s, header)}

PlainGroup(t, header) ==
    With(MinOf(PlainStarts(t, header)) + Len(header), LAMBDA a :
    With(SkipIn(t, IF StartsWith(t, a, <<":">>) THEN a + 1 ELSE a, Whitespace),
         LAMBDA from : Sub(t, from, SkipNotIn(t, from, {"\n"}) - 1)))

\* The three patterns, in the order the loop body tries them.
Styles == <<"markdown", "bold", "plain">>

\* text.match(regex) is not null, for the pattern of the style.
StyleMatches(t, header, style) ==
    IF style = "markdown" THEN MarkdownStarts(t, header) # {}
    ELSE IF style = "bold" THEN BoldStarts(t, header) # {}
    ELSE PlainStarts(t, header) # {}

\* What the loop body returns when the pattern of the style matches.
StyleValue(t, header, style) ==
    IF style = "markdown"
    THEN With(With(With(With(MarkdownGroup(t, header), Trim), RemoveFirstHeadingLine), Trim),
              LAMBDA cleaned : IF cleaned = <<>> THEN NULL ELSE cleaned)
    ELSE IF style = "bold" THEN With(BoldGroup(t, header), Trim)
    ELSE With(PlainGroup(t, header), Trim)

SectionInOrder(t, header, order) ==
    With({i \in DOMAIN order : StyleMatches(t, header, order[i])}, LAMBDA hits :
        IF hits = {} THEN [matched |-> FALSE, style |-> "none", value |-> NULL]
        ELSE With(order[MinOf(hits)], LAMBDA first :
                 [matched |-> TRUE, style |-> first, value |-> StyleValue(t, header, first)]))

SectionForHeaderBoldFirst(t, header) ==
    SectionInOrder(t, header, <<"bold", "markdown", "plain">>)

\* The loop body for one header; matched is FALSE when no pattern matches.
SectionForHeader(t, header) == SectionInOrder(t, header, Styles)

\* extractSection(text, ...headers): the loop over the headers.
RECURSIVE extractSectionFrom(_, _, _)
extractSectionFrom(t, headers, k) ==
    IF k > Len(headers) THEN NULL
    ELSE With(SectionForHeader(t, headers[k]),
              LAMBDA found : IF found.matched THEN found.value
                             ELSE extractSectionFrom(t, headers, k + 1))

extractSection(t, headers) == extractSectionFrom(t, headers, 1)
(***************************************************************************)
(* extractList, the labelled rows (headerPattern): a bold label that ends  *)
(* in a colon, optional whitespace, then the detail.                       *)
(* The label cannot hold a *, so ":**" can only close it at the end of the *)
(* run of characters other than * that follows the opening "**".  \s* is   *)
(* greedy and gives characters back only when what follows it is a * or    *)
(* the end of the text; the detail then starts at the last blank of the    *)
(* whitespace.  The first line of the detail ends at a newline or a *;     *)
(* further lines are taken while they do not start with a marker.          *)
(***************************************************************************)
DigitsDotAt(t, i) ==
    LET d == SkipIn(t, i, DigitChars)
    IN  d > i /\ d <= Len(t) /\ t[d] = "."

MarkerAt(t, i) ==
    \/ StartsWith(t, i, <<"*", "*">>)
    \/ DigitsDotAt(t, i)
    \/ (i <= Len(t) /\ t[i] \in BulletChars)
    \/ StartsWith(t, i, <<"#", "#">>)

RECURSIVE ContinuationEnd(_, _)
ContinuationEnd(t, e) ==
    IF /\ e + 1 <= Len(t)
       /\ t[e] = "\n"
       /\ ~MarkerAt(t, e + 1)
       /\ t[e + 1] # "\n"
    THEN ContinuationEnd(t, SkipNotIn(t, e + 1, {"\n"}))
    ELSE e

FirstLineEnd(t, from) == SkipNotIn(t, from, {"\n", "*"})

\* Where the detail starts after the ":**" that ends before position after,
\* 0 when there is no detail.
DetailStart(t, after) ==
    With(SkipIn(t, after, Whitespace), LAMBDA w :
        IF w <= Len(t) /\ t[w] # "*" THEN w
        ELSE With({q \in after..(w - 1) : t[q] = " "},
                  LAMBDA blanks : IF blanks # {} THEN MaxOf(blanks) ELSE 0))

NoLabelMatch(s) ==
    [ok |-> FALSE, index |-> s, end |-> s, label |-> <<>>, content |-> <<>>]

LabelMatchAt(t, s) ==
    With(SkipNotIn(t, s + 2, {"*"}), LAMBDA r :
        IF ~(/\ StartsWith(t, s, <<"*", "*">>)
             /\ r >= s + 4
             /\ t[r - 1] = ":"
             /\ StartsWith(t, r, <<"*", "*">>))
        THEN NoLabelMatch(s)
        ELSE With(DetailStart(t, r + 2), LAMBDA from :
                 IF from = 0 THEN NoLabelMatch(s)
                 ELSE With(ContinuationEnd(t, FirstLineEnd(t, from)), LAMBDA end :
                          [ok |-> TRUE, index |-> s, end |-> end,
                           label |-> Sub(t, s + 2, r - 2),
                           content |-> Sub(t, from, end - 1)])))

\* [...section.matchAll(headerPattern)] from position from on.
RECURSIVE LabelMatches(_, _)
LabelMatches(t, from) ==
    With({s \in from..Len(t) : LabelMatchAt(t, s).ok}, LAMBDA starts :
        IF starts = {} THEN <<>>
        ELSE With(LabelMatchAt(t, MinOf(starts)),
                  LAMBDA m : <<m>> \o LabelMatches(t, m.end)))

\* Characters looked at after a label whose detail is empty.
MaxFollowing == 500

\* Where the content that follows an empty detail ends: at a leading "**",
\* or at a newline before a numbered, bulleted or "##" line or two more
\* newlines.
FollowingContent(t, end) ==
    With(Sub(t, end, Len(t)), LAMBDA afterMatch :
    With({i \in 1..Len(afterMatch) :
             \/ i = 1 /\ StartsWith(afterMatch, 1, <<"*", "*">>)
             \/ /\ afterMatch[i] = "\n"
                /\ \/ DigitsDotAt(afterMatch, i + 1)
                   \/ (i + 1 <= Len(afterMatch) /\ afterMatch[i + 1] \in BulletChars)
                   \/ StartsWith(afterMatch, i + 1, <<"#", "#">>)
                   \/ StartsWith(afterMatch, i, <<"\n", "\n", "\n">>)},
         LAMBDA stops :
             With(Sub(afterMatch, 1,
                      IF stops # {} THEN MinOf(stops) - 1
                      ELSE IF Len(afterMatch) < MaxFollowing THEN Len(afterMatch)
                      ELSE MaxFollowing),
                  Trim)))

\* The forEach body: the item a match contributes, <<>> when it has none.
LabelItem(t, m) ==
    With(With(m.content, Trim), LAMBDA own :
    With(IF own # <<>> THEN own ELSE FollowingContent(t, m.end), LAMBDA content :
        IF content = <<>> THEN <<>>
        ELSE <<"*", "*">> \o With(m.label, Trim) \o <<":", "*", "*", " ">> \o content))

RECURSIVE LabelItems(_, _)
LabelItems(t, ms) ==
    IF ms = <<>> THEN <<>>
    ELSE With(LabelItem(t, ms[1]),
              LAMBDA item : (IF item = <<>> THEN <<>> ELSE <<item>>)
                            \o LabelItems(t, Tail(ms)))

(***************************************************************************)
(* extractList, the list lines (flags gm): a marker at the start of a line *)
(* (digits and a dot for "numbered", a bullet character for "bullet", the  *)
(* same after optional whitespace for "spaced"), whitespace, and the rest  *)
(* of the line.                                                            *)
(* \s+ is greedy and may cross newlines; (.+) is the rest of the line on   *)
(* which the whitespace ends.  The item is the match without its marker    *)
(* and whitespace, trimmed.                                                *)
(***************************************************************************)
MarkerEnd(t, s, kind) ==
    IF kind = "numbered"
    THEN (IF DigitsDotAt(t, s) THEN SkipIn(t, s, DigitChars) + 1 ELSE 0)
    ELSE With(IF kind = "spaced" THEN SkipIn(t, s, Whitespace) ELSE s,
              LAMBDA b : IF b <= Len(t) /\ t[b] \in BulletChars THEN b + 1 ELSE 0)

\* Where the rest of the line starts after the marker that ends before
\* position me, 0 when no whitespace or nothing follows the marker.
ContentStart(t, me) ==
    With(SkipIn(t, me, Whitespace), LAMBDA w :
        IF w = me THEN 0
        ELSE IF w <= Len(t) THEN w
        ELSE With({q \in (me + 1)..Len(t) : t[q] = " "},
                  LAMBDA blanks : IF blanks # {} THEN MaxOf(blanks) ELSE 0))

NoMarkerMatch(s) == [ok |-> FALSE, end |-> s, item |-> <<>>]

MarkerMatchAt(t, s, kind) ==
    IF ~LineStart(t, s) THEN NoMarkerMatch(s)
    ELSE With(MarkerEnd(t, s, kind), LAMBDA me :
             IF me = 0 THEN NoMarkerMatch(s)
             ELSE With(ContentStart(t, me), LAMBDA from :
                      IF from = 0 THEN NoMarkerMatch(s)
                      ELSE With(SkipNotIn(t, from, {"\n"}), LAMBDA end :
                               [ok |-> TRUE, end |-> end,
                                item |-> With(Sub(t, me, end - 1), Trim)])))

\* section.match(pattern) mapped to the items, from position from on.
RECURSIVE MarkerItems(_, _, _)
MarkerItems(t, from, kind) ==
    With({s \in from..Len(t) : MarkerMatchAt(t, s, kind).ok}, LAMBDA starts :
        IF starts = {} THEN <<>>
        ELSE With(MarkerMatchAt(t, MinOf(starts), kind),
                  LAMBDA m : <<m.item>> \o MarkerItems(t, m.end, kind)))

\* .filter(item => item.length > 0)
NonEmptyItems(items) == SelectSeq(items, LAMBDA x : x # <<>>)

(***************************************************************************)
(* extractList, the last resort: the trimmed lines of the section that are *)
(* not blank, not a heading and not a standalone bold text.                *)
(***************************************************************************)
HeadingLike(line) ==
    LET h == SkipIn(line, 1, {"#"})
    IN  \/ StartsWith(line, 1, <<"#", "#">>)
        \/ (h >= 2 /\ h <= 7 /\ h <= Len(line) /\ line[h] \in Whitespace)

StandaloneBold(line) ==
    LET r == SkipNotIn(line, 3, {"*"})
    IN  /\ StartsWith(line, 1, <<"*", "*">>)
        /\ r >= 4
        /\ StartsWith(line, r, <<"*", "*">>)
        /\ SkipIn(line, r + 2, Whitespace) = Len(line) + 1

RECURSIVE TrimAll(_)
TrimAll(ls) ==
    IF ls = <<>> THEN <<>> ELSE <<With(ls[1], Trim)>> \o TrimAll(Tail(ls))

PlainLinesNone(section) == <<>>

PlainLines(section) ==
    SelectSeq(TrimAll(SplitLines(section)),
              LAMBDA line : line # <<>> /\ ~HeadingLike(line) /\ ~StandaloneBold(line))

(***************************************************************************)
(* extractList(text, ...headers)                                           *)
(***************************************************************************)
ListOfSectionBulletsFirst(section) ==
    With(LabelItems(section, LabelMatches(section, 1)), LAMBDA items :
        IF items # <<>> THEN items
        ELSE With(MarkerItems(section, 1, "bullet"), LAMBDA bulletItems :
            IF bulletItems # <<>> THEN NonEmptyItems(bulletItems)
            ELSE With(MarkerItems(section, 1, "numbered"), LAMBDA numberedItems :
                IF numberedItems # <<>> THEN NonEmptyItems(numberedItems)
                ELSE With(MarkerItems(section, 1, "spaced"), LAMBDA spacedItems :
                    IF spacedItems # <<>> THEN NonEmptyItems(spacedItems)
                    ELSE PlainLines(section)))))

ListOfSection(section) ==
    With(LabelItems(section, LabelMatches(section, 1)), LAMBDA items :
        IF items # <<>> THEN items
        ELSE With(MarkerItems(section, 1, "numbered"), LAMBDA numberedItems :
            IF numberedItems # <<>> THEN NonEmptyItems(numberedItems)
            ELSE With(MarkerItems(section, 1, "bullet"), LAMBDA bulletItems :
                IF bulletItems # <<>> THEN NonEmptyItems(bulletItems)
                ELSE With(MarkerItems(section, 1, "spaced"), LAMBDA spacedItems :
                    IF spacedItems # <<>> THEN NonEmptyItems(spacedItems)
                    ELSE PlainLines(section)))))

extractList(t, headers) ==
    With(extractSection(t, headers),
         LAMBDA section : IF section = NULL \/ section = <<>> THEN <<>>
                          ELSE ListOfSection(section))
(***************************************************************************)
(* The analyze handler, from the model's text to the report.               *)
(***************************************************************************)
KeyFindingsHeaders == <<<<"Key Findings">>, <<"Findings">>>>

RecommendationsHeaders == <<<<"Recommendation", "s">>, <<"Recommendation">>>>

KeyFindingsPlaceholder == <<"Analysis completed. Review full report for details.">>

RecommendationsPlaceholder ==
    <<"Review the full analysis report with your healthcare provider.">>

\* slice(0, 10)
MaxSubstitutes == 10

Slice(items, n) == SubSeq(items, 1, IF Len(items) < n THEN Len(items) ELSE n)

KeyFindingsFallbackNoCap(t, keyFindings) ==
    IF keyFindings = <<>> /\ Len(t) > 0
    THEN With(MarkerItems(t, 1, "numbered"), LAMBDA allNumbered :
             IF allNumbered # <<>> THEN allNumbered
             ELSE With(MarkerItems(t, 1, "bullet"), LAMBDA allBulleted :
                      IF allBulleted # <<>> THEN allBulleted
                      ELSE keyFindings))
    ELSE keyFindings

\* The substitute key findings taken from the whole text.
KeyFindingsFallback(t, keyFindings) ==
    IF keyFindings = <<>> /\ Len(t) > 0
    THEN With(MarkerItems(t, 1, "numbered"), LAMBDA allNumbered :
             IF allNumbered # <<>> THEN Slice(allNumbered, MaxSubstitutes)
             ELSE With(MarkerItems(t, 1, "bullet"), LAMBDA allBulleted :
                      IF allBulleted # <<>> THEN Slice(allBulleted, MaxSubstitutes)
                      ELSE keyFindings))
    ELSE keyFindings

\* analysisText.match(/##\s+Recommendations[\s\S]*?(?=##|$)/i), NULL when
\* there is no match.
RecSection(t) ==
    With({s \in 1..Len(t) :
             /\ StartsWith(t, s, <<"#", "#">>)
             /\ SkipIn(t, s + 2, Whitespace) > s + 2
             /\ StartsWith(t, SkipIn(t, s + 2, Whitespace), <<"Recommendation", "s">>)},
         LAMBDA starts :
             IF starts = {} THEN NULL
             ELSE With(MinOf(starts), LAMBDA s :
                      Sub(t, s, FirstAt(t, SkipIn(t, s + 2, Whitespace) + 2, <<"#", "#">>) - 1)))

RecommendationsFallbackFreeLines(t, recommendations) ==
    IF recommendations = <<>> /\ Len(t) > 0 THEN PlainLines(t) ELSE recommendations

\* The substitute recommendations taken from the Recommendations section of
\* the whole text.
RecommendationsFallback(t, recommendations) ==
    IF recommendations = <<>> /\ Len(t) > 0
    THEN With(RecSection(t), LAMBDA recSection :
             IF recSection = NULL THEN recommendations
             ELSE With(MarkerItems(recSection, 1, "numbered"), LAMBDA numberedItems :
                      IF numberedItems # <<>> THEN numberedItems
                      ELSE With(MarkerItems(recSection, 1, "bullet"), LAMBDA bulletItems :
                               IF bulletItems # <<>> THEN bulletItems
                               ELSE recommendations)))
    ELSE recommendations

OrPlaceholderNever(items, placeholder) == items

\* finalX.length > 0 ? finalX : [placeholder]
OrPlaceholder(items, placeholder) ==
    IF Len(items) > 0 THEN items ELSE <<placeholder>>

SummaryHeaders == <<<<"AI Summary">>, <<"Executive Summary">>, <<"Summary">>>>

CorrelationsHeaders == <<<<"Clinical Correlations">>, <<"Correlations">>>>

\* substring(0, 2000)
MaxSummary == 2000

Truthy(str) == str # NULL /\ str # <<>>

enhancedSummary(t) ==
    With(extractSection(t, SummaryHeaders), LAMBDA summary :
        IF Truthy(summary)
        THEN With(extractSection(t, CorrelationsHeaders), LAMBDA clinicalCorrelations :
                 IF Truthy(clinicalCorrelations)
                 THEN summary \o <<"\n", "\n">> \o clinicalCorrelations
                 ELSE summary)
        ELSE IF Slice(t, MaxSummary) # <<>> THEN Slice(t, MaxSummary)
        ELSE <<"Analysis complete">>)

BuildReport(t, keyFindings, recommendations) ==
    [summary |-> enhancedSummary(t),
     keyFindings |->
         OrPlaceholder(KeyFindingsFallback(t, keyFindings), KeyFindingsPlaceholder),
     recommendations |->
         OrPlaceholder(RecommendationsFallback(t, recommendations),
                       RecommendationsPlaceholder),
     fullReport |-> t]

(***************************************************************************)
(* stripMarkdown (report.ts): each replaceAll scans the text from the left *)
(* and replaces a delimited span by what it encloses.  A span is the       *)
(* opening delimiter, one or more characters other than the stop           *)
(* character, and the closing delimiter.                                   *)
(***************************************************************************)
SpanEnd(t, i, open, stop, close) ==
    IF ~StartsWith(t, i, open) THEN 0
    ELSE With(SkipNotIn(t, i + Len(open), {stop}), LAMBDA j :
             IF j > i + Len(open) /\ StartsWith(t, j, close) THEN j ELSE 0)

RECURSIVE Unwrap(_, _, _, _, _)
Unwrap(t, i, open, stop, close) ==
    IF i > Len(t) THEN <<>>
    ELSE With(SpanEnd(t, i, open, stop, close), LAMBDA j :
             IF j = 0 THEN <<t[i]>> \o Unwrap(t, i + 1, open, stop, close)
             ELSE Sub(t, i + Len(open), j - 1)
                  \o Unwrap(t, j + Len(close), open, stop, close))

\* A link, "[text](url)", is replaced by its text.
LinkEnd(t, i) ==
    With(SpanEnd(t, i, <<"[">>, "]", <<"]", "(">>), LAMBDA j :
        IF j = 0 THEN 0
        ELSE With(SkipNotIn(t, j + 2, {")"}), LAMBDA k :
                 IF k > j + 2 /\ k <= Len(t) THEN k ELSE 0))

RECURSIVE Unlink(_, _)
Unlink(t, i) ==
    IF i > Len(t) THEN <<>>
    ELSE With(LinkEnd(t, i), LAMBDA k :
             IF k = 0 THEN <<t[i]>> \o Unlink(t, i + 1)
             ELSE Sub(t, i + 1, SkipNotIn(t, i + 1, {"]"}) - 1) \o Unlink(t, k + 1))

\* The grave accent that delimits inline code, as one element of a text.
Backtick == "grave"

stripMarkdown(text) ==
    With(Unwrap(text, 1, <<"*", "*">>, "*", <<"*", "*">>), LAMBDA bold :
    With(Unwrap(bold, 1, <<"*">>, "*", <<"*">>), LAMBDA italic :
    With(Unwrap(italic, 1, <<"_">>, "_", <<"_">>), LAMBDA underscore :
    With(Unwrap(underscore, 1, <<Backtick>>, Backtick, <<Backtick>>), LAMBDA code :
    With(Unlink(code, 1), LAMBDA cleaned :
        Trim(SelectSeq(cleaned, LAMBDA c : c # "*"))))))) 

(***************************************************************************)
(* parseFindingRow (report.ts): the first "**label:**" of the finding,     *)
(* whitespace, and the rest of the line on which the whitespace ends.      *)
(***************************************************************************)
\* Where the details start after the ":**" that ends before position after,
\* 0 when no character of a line follows.
DetailsStart(t, after) ==
    With(SkipIn(t, after, Whitespace), LAMBDA w :
        IF w <= Len(t) THEN w
        ELSE With({q \in after..(w - 1) : t[q] # "\n"},
                  LAMBDA blanks : IF blanks # {} THEN MaxOf(blanks) ELSE 0))

BoldMatchAt(t, s) ==
    With(SkipNotIn(t, s + 2, {"*"}), LAMBDA r :
        IF ~(/\ StartsWith(t, s, <<"*", "*">>)
             /\ r >= s + 3
             /\ t[r - 1] = ":"
             /\ r >= s + 4
             /\ StartsWith(t, r, <<"*", "*">>))
        THEN [ok |-> FALSE, label |-> <<>>, details |-> <<>>]
        ELSE With(DetailsStart(t, r + 2), LAMBDA from :
                 IF from = 0 THEN [ok |-> FALSE, label |-> <<>>, details |-> <<>>]
                 ELSE [ok |-> TRUE, label |-> Sub(t, s + 2, r - 2),
                       details |-> Sub(t, from, SkipNotIn(t, from, {"\n"}) - 1)]))

parseFindingRow(finding) ==
    With({s \in 1..Len(finding) : BoldMatchAt(finding, s).ok}, LAMBDA starts :
        IF starts = {}
        THEN [category |-> stripMarkdown(finding), details |-> <<>>]
        ELSE With(BoldMatchAt(finding, MinOf(starts)), LAMBDA boldMatch :
                 [category |-> stripMarkdown(boldMatch.label),
                  details |-> stripMarkdown(boldMatch.details)]))

(***************************************************************************)
(* The texts the parse is checked on: up to MaxLines lines, each of one of *)
(* the shapes a model answer is made of, joined by newlines; and runs of   *)
(* up to MaxRun numbered lines.                                            *)
(***************************************************************************)
MaxLines == 3
MaxRun == 12

LineShapes ==
    { <<"#", "#", " ", "Key Findings">>,
      <<"#", "#", "#", " ", "Findings">>,
      <<"#", "#", " ", "Recommendation", "s">>,
      <<"1", ".", " ", "a">>,
      <<"-", " ", "b">>,
      <<" ", " ", "*", " ", "c">>,
      <<"2", ".", " ", "*", "*", "M", ":", "*", "*", " ", "y">>,
      <<"*", "*", "N", ":", "*", "*", " ", "z", " ", "*", "e", "*", " ", "w">>,
      <<"*", "*", "Key Findings", "*", "*", ":", " ", "p">>,
      <<"Key Findings", ":", " ", "q">>,
      <<"*", "*", "B", "*", "*">>,
      <<"Consider repeat testing in 3 months">> }

\* The sequences of n lines.
LineSeqs(n) == [1..n -> LineShapes]

RECURSIVE NumberedRun(_)
NumberedRun(k) ==
    IF k = 0 THEN <<>> ELSE NumberedRun(k - 1) \o <<<<"1", ".", " ", "a">>>>

Texts ==
    UNION {{JoinLines(ls) : ls \in LineSeqs(n)} : n \in 0..MaxLines}
    \cup {JoinLines(NumberedRun(k)) : k \in 1..MaxRun}

(***************************************************************************)
(* The parse on its own: the handler receives a text and builds the report.*)
(***************************************************************************)
ExtractInit ==
    /\ endpoint = TRUE
    /\ anthropicClient = FALSE
    /\ modelId = DefaultModelId
    /\ pc = "idle"
    /\ analysisNo = 0
    /\ messages = <<>>
    /\ attempts = <<>>
    /\ primaryErr = NoError
    /\ result = [analysisText |-> "", modelUsed |-> <<>>]
    /\ raisedErr = NoError
    /\ producer = "none"
    /\ cause = "none"
    /\ timerPending = FALSE
    /\ aborted = FALSE
    /\ clock = 0
    /\ auditLog = <<>>
    /\ response = [status |-> 0]
    /\ analysisText \in Texts
    /\ stage = "raw"
    /\ extracted = NoExtracted
    /\ report = NoReport
    /\ markdown = <<>>
    /\ tokens = <<>>
    /\ tokenNo = 0
    /\ pdfPc = "off"
    /\ drawn = <<>>
    /\ promise = "none"
    /\ table = {}
    /\ gsi = {}
    /\ tableInitPromise = "null"
    /\ initCount = 0
    /\ InlineIdle
    /\ PageIdle
    /\ rendered = <<>>
    /\ calls = <<>>

ParseReport ==
    /\ stage = "raw"
    /\ stage' = "parsed"
    /\ \E keyFindings \in {extractList(analysisText, KeyFindingsHeaders)} :
       \E recommendations \in {extractList(analysisText, RecommendationsHeaders)} :
           /\ extracted' = [section |-> extractSection(analysisText, KeyFindingsHeaders),
                            keyFindings |-> keyFindings,
                            recommendations |-> recommendations,
                            rows |-> [i \in DOMAIN keyFindings |->
                                         parseFindingRow(keyFindings[i])]]
           /\ report' = BuildReport(analysisText, keyFindings, recommendations)
    /\ UNCHANGED <<configVars, timerVars, pc, analysisNo, messages, attempts,
                   primaryErr, result, raisedErr, producer, cause, auditLog,
                   response, analysisText, pdfVars, layoutVars, storeVars>>

ExtractNext == ParseReport

ExtractSpec == ExtractInit /\ [][ExtractNext]_vars

(***************************************************************************)
(* Vocabulary of the claims about the parse.                               *)
(***************************************************************************)
Parsed == stage = "parsed"

FreeSentence == <<"Consider repeat testing in 3 months">>

\* The lines of the text the handler received.
TextLines == SplitLines(analysisText)

HasLine(l) == \E i \in DOMAIN TextLines : TextLines[i] = l

\* A markdown heading line: one or more #, whitespace, a title.
IsHeadingLine(l) ==
    LET h == SkipIn(l, 1, {"#"})
    IN  h >= 2 /\ h <= Len(l) /\ l[h] \in Whitespace

HeadingTitle(l) == Trim(Sub(l, SkipIn(l, 1, {"#"}), Len(l)))

HasHeadingTitled(title) ==
    \E i \in DOMAIN TextLines :
        IsHeadingLine(TextLines[i]) /\ StartsWith(HeadingTitle(TextLines[i]), 1, title)

\* C11: in the report built by an analysis, keyFindings and recommendations
\* each hold at least one element, whatever the text of the model was, the
\* empty text included.
C11_ListsNeverEmpty ==
    Parsed => Len(report.keyFindings) >= 1 /\ Len(report.recommendations) >= 1

C11_Witness ==
    /\ Parsed
    /\ analysisText = <<>>
    /\ report.keyFindings = <<KeyFindingsPlaceholder>>
    /\ report.recommendations = <<RecommendationsPlaceholder>>

\* C12 as stated: when the text has no Recommendations heading but holds a
\* free sentence, the final recommendations are the one-element array with
\* that sentence.
C12_FreeSentenceBecomesRecommendation ==
    (Parsed /\ ~HasHeadingTitled(<<"Recommendation">>) /\ HasLine(FreeSentence))
        => report.recommendations = <<FreeSentence>>

\* C12 amended: when the text has no Recommendations header of any style
\* (heading, bold label or plain label), the final recommendations are the
\* one-element array with the placeholder, whatever free sentences the text
\* holds.
C12_PlaceholderWithoutRecommendationsHeader ==
    (Parsed /\ ~Includes(analysisText, "Recommendation"))
        => report.recommendations = <<RecommendationsPlaceholder>>

C12_Witness ==
    /\ Parsed
    /\ analysisText = FreeSentence
    /\ report.recommendations = <<RecommendationsPlaceholder>>

\* A line carries a list marker when, trimmed, it starts with a number and a
\* dot or with a bullet character and whitespace, or holds a bold label that
\* ends in a colon.
HasListMarker(l) ==
    LET u == Trim(l)
    IN  \/ DigitsDotAt(u, 1)
        \/ (Len(u) >= 2 /\ u[1] \in BulletChars /\ u[2] \in Whitespace)
        \/ \E i \in 1..Len(u) : StartsWith(u, i, <<":", "*", "*">>)

\* A line of content: not blank, not a heading, not a text in bold alone.
IsContentLine(l) ==
    LET u == Trim(l)
    IN  /\ u # <<>>
        /\ u[1] # "#"
        /\ ~(StartsWith(u, 1, <<"*", "*">>) /\ StartsWith(u, Len(u) - 1, <<"*", "*">>))

NoListMarkers(t) == \A i \in DOMAIN SplitLines(t) : ~HasListMarker(SplitLines(t)[i])

HasContentLine(t) == \E i \in DOMAIN SplitLines(t) : IsContentLine(SplitLines(t)[i])

SectionFound == extracted.section # NULL /\ extracted.section # <<>>

\* C13 as stated: for a text without list markers, extractList returns a
\* non-empty array whenever the raw text holds at least one line of content.
C13_NonEmptyWheneverTextHasContent ==
    (Parsed /\ NoListMarkers(analysisText) /\ HasContentLine(analysisText))
        => extracted.keyFindings # <<>>

\* C13 amended: when extractSection finds a section for the headers and that
\* section has no list markers, extractList returns a non-empty array
\* whenever the section holds at least one line of content; without a
\* matching header it returns the empty array.
C13_NonEmptyWheneverSectionHasContent ==
    /\ (Parsed /\ SectionFound /\ NoListMarkers(extracted.section)
               /\ HasContentLine(extracted.section))
           => extracted.keyFindings # <<>>
    /\ (Parsed /\ ~SectionFound) => extracted.keyFindings = <<>>

C13_Witness ==
    /\ Parsed
    /\ analysisText = <<"#", "#", " ", "Key Findings", "\n">> \o FreeSentence
    /\ NoListMarkers(extracted.section)
    /\ extracted.keyFindings = <<FreeSentence>>

\* The index of the first heading line with the title, 0 when there is none.
FirstHeadingTitled(title) ==
    LET found == {i \in DOMAIN TextLines :
                     IsHeadingLine(TextLines[i])
                     /\ StartsWith(HeadingTitle(TextLines[i]), 1, title)}
    IN  IF found = {} THEN 0 ELSE MinOf(found)

\* The trimmed text between heading line i and the next heading line, or the
\* end of the text.
TextUnderHeading(i) ==
    LET later == {j \in (i + 1)..Len(TextLines) : IsHeadingLine(TextLines[j])}
        last == IF later = {} THEN Len(TextLines) ELSE MinOf(later) - 1
    IN  Trim(JoinLines(Sub(TextLines, i + 1, last)))

\* The returned string, null counted as no text.
Returned(str) == IF str = NULL THEN <<>> ELSE str

\* C14: for a text with a markdown heading that matches an alias,
\* extractSection returns exactly the trimmed text between that heading line
\* and the next heading line, or the end of the text.
C14_SectionIsTextUpToNextHeading ==
    (Parsed /\ FirstHeadingTitled(<<"Key Findings">>) # 0)
        => Returned(extracted.section)
               = TextUnderHeading(FirstHeadingTitled(<<"Key Findings">>))

\* The first alias of the key findings that matches in the style, 0 if none.
FirstAliasIn(style) ==
    LET hits == {k \in DOMAIN KeyFindingsHeaders :
                    StyleMatches(analysisText, KeyFindingsHeaders[k], style)}
    IN  IF hits = {} THEN 0 ELSE MinOf(hits)

\* The first style in which the alias matches, 0 if none.
FirstStyleOf(k) ==
    LET hits == {i \in DOMAIN Styles :
                    StyleMatches(analysisText, KeyFindingsHeaders[k], Styles[i])}
    IN  IF hits = {} THEN 0 ELSE MinOf(hits)

ValueOf(k, i) == StyleValue(analysisText, KeyFindingsHeaders[k], Styles[i])

\* C15 as stated: styles take precedence over aliases: a markdown-heading
\* match of any alias is returned in preference to a bold-label or
\* plain-label match of any other alias, and a bold-label match in
\* preference to a plain-label match.
C15_StyleBeforeAlias ==
    Parsed =>
        \A i \in DOMAIN Styles :
            (/\ FirstAliasIn(Styles[i]) # 0
             /\ \A j \in 1..(i - 1) : FirstAliasIn(Styles[j]) = 0)
                => extracted.section = ValueOf(FirstAliasIn(Styles[i]), i)

\* C15 amended: aliases take precedence over styles: the first alias, in the
\* order given, that matches in any style is used, and within that alias a
\* markdown-heading match is preferred to a bold-label match and that to a
\* plain-label match; null is returned when no alias matches in any style.
C15_AliasBeforeStyle ==
    Parsed =>
        /\ \A k \in DOMAIN KeyFindingsHeaders :
               (/\ FirstStyleOf(k) # 0
                /\ \A j \in 1..(k - 1) : FirstStyleOf(j) = 0)
                   => extracted.section = ValueOf(k, FirstStyleOf(k))
        /\ (\A k \in DOMAIN KeyFindingsHeaders : FirstStyleOf(k) = 0)
               => extracted.section = NULL

\* A bold label of the first alias is used although the second alias has a
\* markdown heading.
C15_Witness ==
    /\ Parsed
    /\ FirstStyleOf(1) = 2
    /\ FirstAliasIn("markdown") = 2
    /\ extracted.section = ValueOf(1, 2)
    /\ extracted.section # ValueOf(2, 1)

\* A row with an emphasized sub-label: an optional number and dot, "**", a
\* label, ":**" and a detail.
RowBody(l) ==
    LET u == Trim(l)
    IN  IF DigitsDotAt(u, 1)
        THEN Trim(Sub(u, SkipIn(u, 1, DigitChars) + 1, Len(u)))
        ELSE u

RowLabelEnd(l) ==
    LET ends == {i \in 3..Len(RowBody(l)) : StartsWith(RowBody(l), i, <<":", "*", "*">>)}
    IN  IF ends = {} THEN 0 ELSE MinOf(ends)

RowLabel(l) == Trim(Sub(RowBody(l), 3, RowLabelEnd(l) - 1))

RowDetail(l) == Trim(Sub(RowBody(l), RowLabelEnd(l) + 3, Len(RowBody(l))))

IsLabelledRow(l) ==
    /\ StartsWith(RowBody(l), 1, <<"*", "*">>)
    /\ RowLabelEnd(l) # 0
    /\ RowLabel(l) # <<>>
    /\ RowDetail(l) # <<>>

RowEntry(l) == <<"*", "*">> \o RowLabel(l) \o <<":", "*", "*", " ">> \o RowDetail(l)

SectionLines == SplitLines(Returned(extracted.section))

\* C16: when the section consists of rows with an emphasized sub-label,
\* extractList returns exactly one entry per row, in document order, each
\* holding the label and the complete detail of its row.
C16_OneEntryPerLabelledRow ==
    (Parsed /\ SectionFound /\ \A i \in DOMAIN SectionLines : IsLabelledRow(SectionLines[i]))
        => extracted.keyFindings = [i \in DOMAIN SectionLines |-> RowEntry(SectionLines[i])]

\* The item of a list line of the kind: what follows its marker and
\* whitespace, trimmed; <<>> when the line is no list line of the kind.
\* A numbered line starts with digits and a dot, a bullet line with a dash,
\* an asterisk or a bullet, a spaced line with whitespace before the bullet.
LineMarkerEnd(l, kind) ==
    IF kind = "numbered"
    THEN (IF DigitsDotAt(l, 1) THEN SkipIn(l, 1, DigitChars) + 1 ELSE 0)
    ELSE IF kind = "bullet"
    THEN (IF Len(l) >= 1 /\ l[1] \in BulletChars THEN 2 ELSE 0)
    ELSE (IF /\ SkipIn(l, 1, Whitespace) <= Len(l)
             /\ l[SkipIn(l, 1, Whitespace)] \in BulletChars
          THEN SkipIn(l, 1, Whitespace) + 1 ELSE 0)

LineItem(l, kind) ==
    IF /\ LineMarkerEnd(l, kind) # 0
       /\ LineMarkerEnd(l, kind) <= Len(l)
       /\ l[LineMarkerEnd(l, kind)] \in Whitespace
    THEN Trim(Sub(l, LineMarkerEnd(l, kind), Len(l)))
    ELSE <<>>

RECURSIVE ItemsOfLines(_, _)
ItemsOfLines(ls, kind) ==
    IF ls = <<>> THEN <<>>
    ELSE (IF LineItem(ls[1], kind) = <<>> THEN <<>> ELSE <<LineItem(ls[1], kind)>>)
         \o ItemsOfLines(Tail(ls), kind)

\* The lines of the section that are not blank and not heading-like (a
\* markdown heading or a header in bold alone), trimmed.
RECURSIVE ContentLines(_)
ContentLines(ls) ==
    IF ls = <<>> THEN <<>>
    ELSE (IF IsContentLine(ls[1]) THEN <<Trim(ls[1])>> ELSE <<>>)
         \o ContentLines(Tail(ls))

NoLabelledRows == \A i \in DOMAIN SectionLines :
                      \A k \in 1..Len(SectionLines[i]) :
                          ~StartsWith(SectionLines[i], k, <<":", "*", "*">>)

FirstYieldingStrategy ==
    IF ItemsOfLines(SectionLines, "numbered") # <<>>
    THEN ItemsOfLines(SectionLines, "numbered")
    ELSE IF ItemsOfLines(SectionLines, "bullet") # <<>>
    THEN ItemsOfLines(SectionLines, "bullet")
    ELSE IF ItemsOfLines(SectionLines, "spaced") # <<>>
    THEN ItemsOfLines(SectionLines, "spaced")
    ELSE ContentLines(SectionLines)

\* C17: for a section without labelled rows, extractList returns the items
\* of the first strategy that yields an item, in the order numbered lines,
\* bullet lines at line start, bullet lines after leading whitespace, and
\* only when none yields an item the non-blank, non-heading lines.
C17_FirstYieldingStrategyWins ==
    (Parsed /\ SectionFound /\ NoLabelledRows)
        => extracted.keyFindings = FirstYieldingStrategy

\* A section with a bullet line before a numbered line gives the numbered
\* item only.
C17_Witness ==
    /\ Parsed
    /\ SectionFound
    /\ NoLabelledRows
    /\ ItemsOfLines(SectionLines, "bullet") # <<>>
    /\ ItemsOfLines(SectionLines, "numbered") # <<>>
    /\ extracted.keyFindings = ItemsOfLines(SectionLines, "numbered")

\* A numbered or bulleted line, and its item.
IsListLine(l) == LineItem(l, "numbered") # <<>> \/ LineItem(l, "bullet") # <<>>

ListLineItem(l) ==
    IF LineItem(l, "numbered") # <<>> THEN LineItem(l, "numbered")
    ELSE LineItem(l, "bullet")

\* The first block of list lines of the text: the first list line and the
\* list lines that follow it without interruption.
FirstBlock ==
    LET found == {i \in DOMAIN TextLines : IsListLine(TextLines[i])}
        first == MinOf(found)
        last == MaxOf({j \in first..Len(TextLines) :
                          \A k \in first..j : IsListLine(TextLines[k])})
    IN  IF found = {} THEN <<>>
        ELSE [i \in 1..(last - first + 1) |-> ListLineItem(TextLines[first + i - 1])]

ExtractionYieldsNothing == Parsed /\ extracted.keyFindings = <<>>

\* C18 as stated: when the extraction of the key findings yields no item,
\* the substitute key findings are the lines of the first block of numbered
\* or bulleted lines of the raw text, in document order, at most 10.
C18_FirstBlockIsSubstitute ==
    (ExtractionYieldsNothing /\ FirstBlock # <<>>)
        => report.keyFindings = Slice(FirstBlock, MaxSubstitutes)

\* C18 amended: when the extraction of the key findings yields no item, the
\* substitute key findings are the items of the numbered lines of the whole
\* raw text or, when it has no numbered line, of its lines that start with
\* a bullet character, contiguous or not, in document order and at most the
\* first 10; with neither, the placeholder.
C18_NumberedElseBulletedLinesOfText ==
    ExtractionYieldsNothing =>
        report.keyFindings =
            IF ItemsOfLines(TextLines, "numbered") # <<>>
            THEN Slice(ItemsOfLines(TextLines, "numbered"), MaxSubstitutes)
            ELSE IF ItemsOfLines(TextLines, "bullet") # <<>>
            THEN Slice(ItemsOfLines(TextLines, "bullet"), MaxSubstitutes)
            ELSE <<KeyFindingsPlaceholder>>

\* A text with more than 10 numbered lines gives 10 substitutes.
C18_Witness ==
    /\ ExtractionYieldsNothing
    /\ Len(ItemsOfLines(TextLines, "numbered")) > MaxSubstitutes
    /\ Len(report.keyFindings) = MaxSubstitutes

(***************************************************************************)
(* ReportService.generatePDF and renderMarkdownToPDF.  The markdown is a   *)
(* sequence of blocks, each named by the type of the token marked.lexer    *)
(* makes of it.  Every PDFKit call may throw.                              *)
(***************************************************************************)
MaxTokens == 3

TokenTypes == {"heading", "paragraph", "list", "code", "blockquote", "hr",
               "html", "table", "space"}

\* The token types the switch of renderMarkdownToPDF has a case for.
HandledTypes == {"heading", "paragraph", "list", "code", "blockquote", "hr"}

\* Whether the token marked.lexer makes of a block has a text property.
HasText(type) == type \notin {"hr", "table", "space"}

Token(type) == [type |-> type, text |-> HasText(type)]

lexer(md) == [i \in DOMAIN md |-> Token(md[i])]

\* One iteration of tokens.forEach draws something for the token.
DrawsToken(token) == token.type \in HandledTypes \/ token.text

Markdowns == UNION {[1..n -> TokenTypes] : n \in 0..MaxTokens}

\* The sections generatePDF draws before the appendix, in order.
StructuredSections == <<"header", "summary", "keyFindings", "recommendations",
                        "questions">>

SectionAfter(s) ==
    CASE s = "header" -> "summary"
      [] s = "summary" -> "keyFindings"
      [] s = "keyFindings" -> "recommendations"
      [] s = "recommendations" -> "questions"
      [] s = "questions" -> "appendix"

Drawing(kind, name, token) == [kind |-> kind, name |-> name, token |-> token]

analysisVars == <<configVars, timerVars, pipelineVars, pc, analysisNo, messages,
                  attempts, primaryErr, result, raisedErr, producer, cause,
                  auditLog, response, storeVars, layoutVars>>

RenderInit ==
    /\ endpoint = TRUE
    /\ anthropicClient = FALSE
    /\ modelId = DefaultModelId
    /\ pc = "idle"
    /\ analysisNo = 0
    /\ messages = <<>>
    /\ attempts = <<>>
    /\ primaryErr = NoError
    /\ result = [analysisText |-> "", modelUsed |-> <<>>]
    /\ raisedErr = NoError
    /\ producer = "none"
    /\ cause = "none"
    /\ timerPending = FALSE
    /\ aborted = FALSE
    /\ clock = 0
    /\ auditLog = <<>>
    /\ response = [status |-> 0]
    /\ analysisText = <<>>
    /\ stage = "off"
    /\ extracted = NoExtracted
    /\ report = NoReport
    /\ markdown \in Markdowns
    /\ tokens = <<>>
    /\ tokenNo = 0
    /\ pdfPc = "header"
    /\ drawn = <<>>
    /\ promise = "pending"
    /\ table = {}
    /\ gsi = {}
    /\ tableInitPromise = "null"
    /\ initCount = 0
    /\ InlineIdle
    /\ PageIdle
    /\ rendered = <<>>
    /\ calls = <<>>

\* catch (error) { reject(error); } of the executor of generatePDF.
RejectInCatch ==
    /\ promise' = "rejected"
    /\ pdfPc' = "caught"
    /\ UNCHANGED <<markdown, tokens, tokenNo, drawn>>

\* The header and metadata, the summary, the key findings, the
\* recommendations and the questions, each drawn in turn.
DrawSection ==
    /\ pdfPc \in {StructuredSections[i] : i \in DOMAIN StructuredSections}
    /\ \E throws \in BOOLEAN :
           IF throws THEN RejectInCatch
           ELSE /\ drawn' = Append(drawn, Drawing("section", pdfPc, 0))
                /\ pdfPc' = SectionAfter(pdfPc)
                /\ UNCHANGED <<markdown, tokens, tokenNo, promise>>
    /\ UNCHANGED analysisVars

\* if (report.fullReport) { addPage; drawCardSectionHeader; ... }
StartAppendix ==
    /\ pdfPc = "appendix"
    /\ IF markdown = <<>>
       THEN /\ pdfPc' = "footer"
            /\ UNCHANGED <<markdown, tokens, tokenNo, drawn, promise>>
       ELSE \E throws \in BOOLEAN :
                IF throws THEN RejectInCatch
                ELSE /\ drawn' = Append(drawn, Drawing("section", "appendix", 0))
                     /\ pdfPc' = "lexer"
                     /\ UNCHANGED <<markdown, tokens, tokenNo, promise>>
    /\ UNCHANGED analysisVars

\* const tokens = marked.lexer(markdown), inside the try block.
Lex ==
    /\ pdfPc = "lexer"
    /\ \E throws \in BOOLEAN :
           IF throws
           THEN /\ pdfPc' = "catch"
                /\ UNCHANGED <<tokens, tokenNo>>
           ELSE /\ tokens' = lexer(markdown)
                /\ tokenNo' = 1
                /\ pdfPc' = "forEach"
    /\ UNCHANGED <<analysisVars, markdown, drawn, promise>>

\* One iteration of tokens.forEach; after the last one the renderer returns.
RenderToken ==
    /\ pdfPc = "forEach"
    /\ tokenNo <= Len(tokens)
    /\ \E throws \in {FALSE} \cup {DrawsToken(tokens[tokenNo])} :
           IF throws
           THEN /\ pdfPc' = "catch"
                /\ UNCHANGED <<tokenNo, drawn>>
           ELSE /\ drawn' = IF DrawsToken(tokens[tokenNo])
                            THEN Append(drawn, Drawing("token", tokens[tokenNo].type, tokenNo))
                            ELSE drawn
                /\ tokenNo' = tokenNo + 1
                /\ pdfPc' = IF tokenNo = Len(tokens) THEN "footer" ELSE "forEach"
    /\ UNCHANGED <<analysisVars, markdown, tokens, promise>>

\* The catch block of renderMarkdownToPDF: the whole markdown drawn as
\* plain text; what this throws leaves the renderer.
DrawPlain ==
    /\ pdfPc = "catch"
    /\ \E throws \in BOOLEAN :
           IF throws THEN RejectInCatch
           ELSE /\ drawn' = Append(drawn, Drawing("plain", "markdown", 0))
                /\ pdfPc' = "footer"
                /\ UNCHANGED <<markdown, tokens, tokenNo, promise>>
    /\ UNCHANGED analysisVars

\* The footer and doc.end().
DrawFooter ==
    /\ pdfPc = "footer"
    /\ \E throws \in BOOLEAN :
           IF throws THEN RejectInCatch
           ELSE /\ drawn' = Append(drawn, Drawing("section", "footer", 0))
                /\ pdfPc' = "ended"
                /\ UNCHANGED <<markdown, tokens, tokenNo, promise>>
    /\ UNCHANGED analysisVars

\* doc.on('end'): an empty buffer rejects, any other resolves.
OnEnd ==
    /\ pdfPc = "ended"
    /\ promise = "pending"
    /\ promise' = IF Len(drawn) = 0 THEN "rejected" ELSE "resolved"
    /\ UNCHANGED <<analysisVars, markdown, tokens, tokenNo, pdfPc, drawn>>

\* doc.on('error'): rejects; a settled promise stays as it is.
OnError ==
    /\ pdfPc = "ended"
    /\ promise = "pending"
    /\ promise' = "rejected"
    /\ UNCHANGED <<analysisVars, markdown, tokens, tokenNo, pdfPc, drawn>>

\* const doc = new PDFDocument({ margin: 50 }): the document of a call,
\* given what the call before it drew.
NewDocumentShared(previous) == previous

NewDocument(previous) == <<>>

\* generatePDF is called again for the same report after a call resolved;
\* the document, the tokens and the list state are locals of the call.
RenderAgain ==
    /\ promise = "resolved"
    /\ rendered = <<>>
    /\ rendered' = <<drawn>>
    /\ drawn' = NewDocument(drawn)
    /\ tokens' = <<>>
    /\ tokenNo' = 0
    /\ pdfPc' = "header"
    /\ promise' = "pending"
    /\ UNCHANGED <<configVars, timerVars, pipelineVars, pc, analysisNo, messages,
                   attempts, primaryErr, result, raisedErr, producer, cause,
                   auditLog, response, storeVars, inlineVars, pageVars, markdown>>

RenderNext ==
    \/ DrawSection
    \/ StartAppendix
    \/ Lex
    \/ RenderToken
    \/ DrawPlain
    \/ DrawFooter
    \/ OnEnd
    \/ OnError
    \/ RenderAgain

RenderSpec == RenderInit /\ [][RenderNext]_vars

\* C19: rendering never fails from the caller's point of view: whatever
\* throws while the document is tokenized or drawn, the promise of
\* generatePDF is not rejected, and once the renderer has returned after
\* an exception the markdown is on the document as plain text.
ThrewInRenderer == tokens = <<>> \/ tokenNo <= Len(tokens)

C19_RenderNeverFails ==
    /\ promise # "rejected"
    /\ (pdfPc \in {"footer", "ended"} /\ markdown # <<>> /\ ThrewInRenderer)
           => \E j \in DOMAIN drawn : drawn[j].kind = "plain"

\* C20: in a document generatePDF resolved with, every block of the raw
\* markdown that is not blank space is drawn in the appendix, after all
\* structured sections, whatever the type of its token.
IsAppendixDrawing(j) ==
    /\ j \in DOMAIN drawn
    /\ drawn[j].kind \in {"token", "plain"}
    /\ \A k \in DOMAIN drawn :
           drawn[k].kind = "section" /\ drawn[k].name # "footer" => k < j

BlockDrawn(i) ==
    \E j \in DOMAIN drawn :
        /\ IsAppendixDrawing(j)
        /\ \/ drawn[j].kind = "plain"
           \/ drawn[j].kind = "token" /\ drawn[j].token = i

C20_EveryBlockInAppendix ==
    promise = "resolved" =>
        \A i \in DOMAIN markdown : markdown[i] # "space" => BlockDrawn(i)

(***************************************************************************)
(* Properties of the audit trail of analyzeDocuments.                      *)
(***************************************************************************)
Audited(action) == \E i \in DOMAIN auditLog : auditLog[i] = action

\* The responses the handler sends, by how the request went, whatever
\* became of the audit writes.
ResponseWithAuditWritten ==
    IF raisedErr # NoError THEN {ErrorResponse(raisedErr.message)}
    ELSE IF result # NoResult
    THEN {SuccessResponse, ErrorResponse(<<"Failed to save report">>)}
    ELSE {[status |-> 400, success |-> FALSE, model |-> NoModel,
           message |-> <<"No files uploaded">>],
          ErrorResponse(<<"Failed to upload file">>)}

\* C23: a failure of the audit write never propagates: the handler is never
\* left without a response by logEvent, and the response it sends is the
\* one it sends when the audit events are written.
C23_AuditFailureNeverPropagates ==
    /\ pc # "crashed"
    /\ pc = "responded" => response \in ResponseWithAuditWritten

\* A success response was sent although no audit event could be written.
C23_Witness ==
    /\ pc = "responded"
    /\ response = SuccessResponse
    /\ auditLog = <<>>

\* C24: every fallback provider attempted in an analysis receives the system
\* instruction and the user message as they were built: the failed primary
\* attempt has left the message list as analyzeHealthData made it.
C24_FallbackReceivesBuiltPrompt ==
    \A i \in DOMAIN attempts :
        attempts[i].provider \in {"secondary", "tertiary"} =>
            /\ attempts[i].system = SystemPrompt
            /\ attempts[i].user = UserMessage

\* The report of the request being handled is in the reports table.
ReportSaved == \E item \in table : item.id = analysisNo

FirstRequestAnswered == analysisNo = 1 /\ pc = "responded"

\* C25: for a request with files, ANALYSIS_COMPLETE is written and the
\* success response sent only when the report has been saved; a request
\* that ends with an error response has no ANALYSIS_COMPLETE event, the only
\* outcome event written for it being ANALYSIS_FAILED; and no request has
\* both outcome events.  (Read on the first request of the process, whose
\* events are the whole audit trail.)
OutcomeEvents ==
    {i \in DOMAIN auditLog : auditLog[i] \in {"ANALYSIS_COMPLETE", "ANALYSIS_FAILED"}}

C25_OutcomeEventsFollowTheSave ==
    /\ Cardinality(OutcomeEvents) <= analysisNo
    /\ analysisNo = 1 =>
        /\ Audited("ANALYSIS_COMPLETE") => ReportSaved /\ response = SuccessResponse
        /\ response = SuccessResponse => ReportSaved /\ ~Audited("ANALYSIS_FAILED")
        /\ (pc = "responded" /\ response.status = 500) => ~Audited("ANALYSIS_COMPLETE")
        /\ Audited("ANALYSIS_FAILED") => pc = "responded" /\ response.status = 500
        /\ ~(Audited("ANALYSIS_COMPLETE") /\ Audited("ANALYSIS_FAILED"))

\* The save failed after the provider had answered, and ANALYSIS_FAILED is
\* the outcome event on record.
C25_Witness ==
    /\ FirstRequestAnswered
    /\ result # NoResult
    /\ ~ReportSaved
    /\ response.status = 500
    /\ Audited("ANALYSIS_FAILED")

\* The tertiary attempt of the analysis has ended.
TertiaryEnded ==
    \E i \in DOMAIN attempts :
        attempts[i].provider = "tertiary" /\ attempts[i].outcome # "pending"

\* C26: when the tertiary attempt has ended, on whatever path, its timeout
\* timer is no longer pending.
C26_TimerClearedWhenTertiaryEnds == TertiaryEnded => ~timerPending

(***************************************************************************)
(* ReportService: ensureTable, initializeTable, saveReport, getReport and  *)
(* getUserReports.  MaxCalls calls are made, concurrently; each is a       *)
(* sequence of steps separated by its awaits.                              *)
(***************************************************************************)
MaxCalls == 2
MaxItems == 1

CallIds == 1..MaxCalls
ReportIds == {1, 2}
UserIds == {"u1", "u2"}
Operations == {"saveReport", "getReport", "getUserReports"}

Call(op, reportId, userId, position, status, items) ==
    [op |-> op, reportId |-> reportId, userId |-> userId, pc |-> position,
     status |-> status, result |-> items]

NoCall == Call("none", 0, "", "idle", "none", <<>>)

\* this.tableInitPromise ??= this.initializeTable()
StartsInitAlways(initPromise) == TRUE

StartsInit(initPromise) == initPromise = "null"

\* DynamoDB reads a partition of the index in the order of its sort key.
RECURSIVE Ascending(_)
Ascending(S) ==
    IF S = {} THEN <<>>
    ELSE With(CHOOSE x \in S : \A y \in S : x.createdAt <= y.createdAt,
              LAMBDA first : <<first>> \o Ascending(S \ {first}))

Reverse(seq) == [i \in 1..Len(seq) |-> seq[Len(seq) + 1 - i]]

Take(seq, n) == SubSeq(seq, 1, IF Len(seq) < n THEN Len(seq) ELSE n)

\* QueryCommand on UserIdIndex: the key condition selects the partition,
\* Limit bounds the items read, the filter is applied to what was read.
QueryByUser(userId, limit, forward) ==
    With(Ascending({item \in gsi : item.userId = userId}),
         LAMBDA partition : Take(IF forward THEN partition ELSE Reverse(partition), limit))

QueryReport(reportId, userId) ==
    SelectSeq(QueryByUser(userId, 1, TRUE), LAMBDA item : item.id = reportId)

\* ScanCommand with the filter on id.
ScanById(reportId) == Ascending({item \in table : item.id = reportId})

\* scanResponse.Items.find(...) of getReport.
ScanMatchIdOnly(item, reportId, userId) == item.id = reportId

ScanMatch(item, reportId, userId) == item.id = reportId /\ item.userId = userId

FindInScan(reportId, userId) ==
    Take(SelectSeq(ScanById(reportId), LAMBDA item : ScanMatch(item, reportId, userId)), 1)

UserReportsLimit == 50

nonStoreVars == <<configVars, timerVars, pipelineVars, pdfVars, layoutVars, pc, analysisNo, messages,
                  attempts, primaryErr, result, raisedErr, producer, cause,
                  auditLog, response>>

StoreInit ==
    /\ endpoint \in BOOLEAN
    /\ anthropicClient = FALSE
    /\ modelId = DefaultModelId
    /\ pc = "idle"
    /\ analysisNo = 0
    /\ messages = <<>>
    /\ attempts = <<>>
    /\ primaryErr = NoError
    /\ result = [analysisText |-> "", modelUsed |-> <<>>]
    /\ raisedErr = NoError
    /\ producer = "none"
    /\ cause = "none"
    /\ timerPending = FALSE
    /\ aborted = FALSE
    /\ clock = 0
    /\ auditLog = <<>>
    /\ response = [status |-> 0]
    /\ analysisText = <<>>
    /\ stage = "off"
    /\ extracted = NoExtracted
    /\ report = NoReport
    /\ markdown = <<>>
    /\ tokens = <<>>
    /\ tokenNo = 0
    /\ pdfPc = "off"
    /\ drawn = <<>>
    /\ promise = "none"
    /\ table = {}
    /\ gsi = {}
    /\ tableInitPromise = "null"
    /\ initCount = 0
    /\ InlineIdle
    /\ PageIdle
    /\ rendered = <<>>
    /\ calls = [c \in CallIds |-> NoCall]

\* A call starts: ensureTable up to its await.
StartCall(c, op, reportId, userId) ==
    /\ calls[c].pc = "idle"
    /\ IF endpoint
       THEN /\ calls' = [calls EXCEPT ![c] = Call(op, reportId, userId, "awaitInit",
                                                  "pending", <<>>)]
            /\ IF StartsInit(tableInitPromise)
               THEN /\ tableInitPromise' = "describing"
                    /\ initCount' = initCount + 1
               ELSE UNCHANGED <<tableInitPromise, initCount>>
       ELSE /\ calls' = [calls EXCEPT ![c] = Call(op, reportId, userId, "access",
                                                  "pending", <<>>)]
            /\ UNCHANGED <<tableInitPromise, initCount>>
    /\ UNCHANGED <<nonStoreVars, table, gsi>>

\* initializeTable: DescribeTable answers.
DescribeTable(outcome) ==
    /\ tableInitPromise = "describing"
    /\ tableInitPromise' = IF outcome = "ResourceNotFoundException" THEN "creating"
                           ELSE "resolved"
    /\ UNCHANGED <<nonStoreVars, table, gsi, initCount, calls>>

\* initializeTable: CreateTable answers; a failure is logged.
CreateTable(ok) ==
    /\ tableInitPromise = "creating"
    /\ tableInitPromise' = "resolved"
    /\ UNCHANGED <<nonStoreVars, table, gsi, initCount, calls>>

\* await this.tableInitPromise resumes.
ResumeAfterInit(c) ==
    /\ calls[c].pc = "awaitInit"
    /\ tableInitPromise = "resolved"
    /\ calls' = [calls EXCEPT ![c].pc = "access"]
    /\ UNCHANGED <<nonStoreVars, table, gsi, tableInitPromise, initCount>>

Finished(c, status, items) ==
    calls' = [calls EXCEPT ![c].pc = "done", ![c].status = status, ![c].result = items]

\* saveReport: the put.
PutReport(c, ok) ==
    /\ calls[c].op = "saveReport"
    /\ calls[c].pc = "access"
    /\ Cardinality(table) < MaxItems
    /\ IF ok
       THEN /\ table' = table \cup {Item(calls[c].reportId, calls[c].userId,
                                         Cardinality(table) + 1)}
            /\ Finished(c, "returned", <<>>)
       ELSE /\ Finished(c, "threw", <<>>)
            /\ UNCHANGED table
    /\ UNCHANGED <<nonStoreVars, gsi, tableInitPromise, initCount>>

\* The index receives an item of the table.
GsiPropagates ==
    /\ \E item \in table \ gsi : gsi' = gsi \cup {item}
    /\ UNCHANGED <<nonStoreVars, table, tableInitPromise, initCount, calls>>

\* getReport: the query on the index.
QueryForReport(c, ok) ==
    /\ calls[c].op = "getReport"
    /\ calls[c].pc = "access"
    /\ IF ~ok THEN Finished(c, "threw", <<>>)
       ELSE \E items \in {QueryReport(calls[c].reportId, calls[c].userId)} :
                IF items = <<>>
                THEN calls' = [calls EXCEPT ![c].pc = "scan"]
                ELSE Finished(c, "returned", <<items[1]>>)
    /\ UNCHANGED <<nonStoreVars, table, gsi, tableInitPromise, initCount>>

\* getReport: the scan fallback.
ScanForReport(c, ok) ==
    /\ calls[c].pc = "scan"
    /\ IF ~ok THEN Finished(c, "threw", <<>>)
       ELSE Finished(c, "returned", FindInScan(calls[c].reportId, calls[c].userId))
    /\ UNCHANGED <<nonStoreVars, table, gsi, tableInitPromise, initCount>>

\* getUserReports: the query on the index, most recent first.
QueryForUser(c, ok) ==
    /\ calls[c].op = "getUserReports"
    /\ calls[c].pc = "access"
    /\ IF ~ok THEN Finished(c, "threw", <<>>)
       ELSE Finished(c, "returned", QueryByUser(calls[c].userId, UserReportsLimit, FALSE))
    /\ UNCHANGED <<nonStoreVars, table, gsi, tableInitPromise, initCount>>

StoreNext ==
    \/ \E c \in CallIds, op \in Operations, reportId \in ReportIds, userId \in UserIds :
          StartCall(c, op, reportId, userId)
    \/ \E outcome \in {"exists", "ResourceNotFoundException", "InternalServerError"} :
          DescribeTable(outcome)
    \/ \E ok \in BOOLEAN : CreateTable(ok)
    \/ \E c \in CallIds : ResumeAfterInit(c)
    \/ \E c \in CallIds, ok \in BOOLEAN : PutReport(c, ok)
    \/ GsiPropagates
    \/ \E c \in CallIds, ok \in BOOLEAN : QueryForReport(c, ok)
    \/ \E c \in CallIds, ok \in BOOLEAN : ScanForReport(c, ok)
    \/ \E c \in CallIds, ok \in BOOLEAN : QueryForUser(c, ok)

StoreSpec == StoreInit /\ [][StoreNext]_vars

\* What a finished getReport call returned: the report, or nothing.
Returns(c, item) ==
    /\ calls[c].op = "getReport"
    /\ calls[c].pc = "done"
    /\ calls[c].status = "returned"
    /\ calls[c].result = <<item>>

\* C28: getReport(reportId, userId) returns a report only if it is a stored
\* report whose id and userId both equal the requested ones, whether the
\* index query or the scan fallback found it.
C28_OnlyTheRequestersReport ==
    \A c \in CallIds :
        /\ calls[c].op = "getReport" => Len(calls[c].result) <= 1
        /\ \A i \in DOMAIN calls[c].result :
               calls[c].op = "getReport" =>
                   /\ calls[c].result[i] \in table
                   /\ calls[c].result[i].id = calls[c].reportId
                   /\ calls[c].result[i].userId = calls[c].userId

\* A report of another user with the requested id is stored, the index is
\* empty, and the call returned nothing.
C28_Witness ==
    \E c \in CallIds :
        /\ calls[c].op = "getReport"
        /\ calls[c].pc = "done"
        /\ calls[c].status = "returned"
        /\ calls[c].result = <<>>
        /\ gsi = {}
        /\ \E item \in table : item.id = calls[c].reportId /\ item.userId # calls[c].userId

\* A call is past ensureTable: it is using the table.
AccessesTable(c) == calls[c].pc \in {"access", "scan"}

\* C29: under every interleaving of the calls, initializeTable is started
\* at most once, and a call uses the table only after the initialization
\* has finished.
C29_InitOnceAndAwaited ==
    /\ initCount <= 1
    /\ endpoint => \A c \in CallIds : AccessesTable(c) => tableInitPromise = "resolved"

\* Two calls are past an initialization that was started once.
C29_Witness ==
    /\ initCount = 1
    /\ \A c \in {1, 2} : AccessesTable(c)

(***************************************************************************)
(* The findings table: the rows the renderer makes of the extracted list.  *)
(***************************************************************************)
\* The key findings came from the labelled branch of extractList.
LabelledBranch ==
    /\ stage = "parsed"
    /\ extracted.section # NULL
    /\ LabelItems(extracted.section, LabelMatches(extracted.section, 1)) # <<>>

\* The label and the detail an entry "**label:** detail" was built from.
EntryLabel(entry) == Sub(entry, 3, SkipNotIn(entry, 3, {"*"}) - 2)

EntryDetail(entry) == Sub(entry, SkipNotIn(entry, 3, {"*"}) + 3, Len(entry))

\* C30: every labelled entry produced by extractList is split by
\* parseFindingRow back into the same label and the complete detail, so the
\* row of the findings table shows all of the detail extracted for the
\* label (both without their markdown markers).
C30_RowShowsLabelAndWholeDetail ==
    LabelledBranch =>
        \A i \in DOMAIN extracted.keyFindings :
            /\ extracted.rows[i].category = stripMarkdown(EntryLabel(extracted.keyFindings[i]))
            /\ extracted.rows[i].details = stripMarkdown(EntryDetail(extracted.keyFindings[i]))

(***************************************************************************)
(* renderInlineContent (report.ts): the inline tokens of a paragraph or of *)
(* a list item are drawn one after the other; a strong, em or link token   *)
(* that has tokens of its own is drawn by a nested call.  One step of the  *)
(* model is one iteration of a forEach, or the return of a nested call.    *)
(* The texts hold no citation "[PMID: ...]", so a text without "**" is one *)
(* part.  The inline lexer of marked calls inline code "codespan", which   *)
(* is drawn by the default case.                                           *)
(***************************************************************************)
MaxInline == 2

Regular == "Helvetica"
Bold == "Helvetica-Bold"
Oblique == "Helvetica-Oblique"

BoldMarker == <<"*", "*">>

InlineTexts ==
    {<<"a">>,
     <<"*", "*", "b", "*", "*">>,
     <<"a", "*", "*", "b", "*", "*", "c">>,
     <<"*", "*", "b">>}

InlineToken(type, text, children) == [type |-> type, text |-> text, tokens |-> children]

LeafTokens ==
    {InlineToken("text", t, <<>>) : t \in InlineTexts}
        \cup {InlineToken("codespan", <<"k">>, <<>>)}

SpanTypes == {"strong", "em", "link"}

InnerSpans == {InlineToken(type, <<"b">>, <<InlineToken("text", <<"b">>, <<>>)>>) : type \in SpanTypes}

SpanTokens ==
    {InlineToken(type, <<"b">>, children) :
        type \in SpanTypes,
        children \in {<<>>} \cup {<<c>> : c \in LeafTokens \cup InnerSpans}}

InlineTokens == LeafTokens \cup SpanTokens

InlineLists == UNION {[1..n -> InlineTokens] : n \in 1..MaxInline}

\* text.split(/(\*\*)/g): the pieces between the markers and the markers.
RECURSIVE SplitOnMarkers(_, _, _)
SplitOnMarkers(t, i, piece) ==
    IF i > Len(t) THEN <<piece>>
    ELSE IF StartsWith(t, i, BoldMarker)
         THEN <<piece, BoldMarker>> \o SplitOnMarkers(t, i + 2, <<>>)
         ELSE SplitOnMarkers(t, i + 1, Append(piece, t[i]))

HasBold(t) == \E i \in 1..Len(t) : StartsWith(t, i, BoldMarker)

\* history: part k lies between an opening marker and its closing marker.
InMarkedSpan(parts, k) ==
    /\ Cardinality({j \in 1..(k - 1) : parts[j] = BoldMarker}) % 2 = 1
    /\ \E j \in (k + 1)..Len(parts) : parts[j] = BoldMarker

Run(text, font, strong) == [text |-> text, font |-> font, strong |-> strong]

\* parts.forEach of the text case: a marker toggles inBold, any other
\* non-empty part is drawn in the face inBold selects.
RECURSIVE PartRuns(_, _, _, _)
PartRuns(parts, k, inBold, strong) ==
    IF k > Len(parts) THEN <<>>
    ELSE IF parts[k] = BoldMarker THEN PartRuns(parts, k + 1, ~inBold, strong)
    ELSE IF parts[k] = <<>> THEN PartRuns(parts, k + 1, inBold, strong)
    ELSE <<Run(parts[k], IF inBold THEN Bold ELSE Regular,
               strong \/ InMarkedSpan(parts, k))>>
         \o PartRuns(parts, k + 1, inBold, strong)

\* The text case.
TextRuns(text, strong) ==
    IF HasBold(text) THEN PartRuns(SplitOnMarkers(text, 1, <<>>), 1, FALSE, strong)
    ELSE <<Run(text, Regular, strong)>>

Frame(children, strong) == [tokens |-> children, index |-> 1, strong |-> strong]

\* The analysis, the renderer of the report and the store are not running.
BackendIdle ==
    /\ endpoint = TRUE
    /\ anthropicClient = FALSE
    /\ modelId = DefaultModelId
    /\ pc = "idle"
    /\ analysisNo = 0
    /\ messages = <<>>
    /\ attempts = <<>>
    /\ primaryErr = NoError
    /\ result = [analysisText |-> "", modelUsed |-> <<>>]
    /\ raisedErr = NoError
    /\ producer = "none"
    /\ cause = "none"
    /\ timerPending = FALSE
    /\ aborted = FALSE
    /\ clock = 0
    /\ auditLog = <<>>
    /\ response = [status |-> 0]
    /\ analysisText = <<>>
    /\ stage = "off"
    /\ extracted = NoExtracted
    /\ report = NoReport
    /\ markdown = <<>>
    /\ tokens = <<>>
    /\ tokenNo = 0
    /\ pdfPc = "off"
    /\ drawn = <<>>
    /\ promise = "none"
    /\ table = {}
    /\ gsi = {}
    /\ tableInitPromise = "null"
    /\ initCount = 0
    /\ calls = <<>>
    /\ rendered = <<>>

InlineInit ==
    /\ BackendIdle
    /\ PageIdle
    /\ \E list \in InlineLists : inlineStack = <<Frame(list, FALSE)>>
    /\ docFont = Regular
    /\ runs = <<>>

nonInlineVars == <<configVars, timerVars, pipelineVars, pdfVars, storeVars, pageVars, rendered,
                   pc, analysisNo, messages, attempts, primaryErr, result, raisedErr,
                   producer, cause, auditLog, response>>

InlineTop == inlineStack[Len(inlineStack)]

AtToken(type) ==
    /\ inlineStack # <<>>
    /\ InlineTop.index <= Len(InlineTop.tokens)
    /\ InlineTop.tokens[InlineTop.index].type = type

\* The forEach of the innermost call moves to its next token.
Advanced == [inlineStack EXCEPT ![Len(inlineStack)].index = @ + 1]

RenderText ==
    /\ AtToken("text")
    /\ runs' = runs \o TextRuns(InlineTop.tokens[InlineTop.index].text, InlineTop.strong)
    /\ docFont' = Regular
    /\ inlineStack' = Advanced
    /\ UNCHANGED nonInlineVars

\* The strong, em and link cases: the face is set, and the token is drawn
\* by a nested call when it has tokens, as its text otherwise.
RenderSpan(type, font) ==
    /\ AtToken(type)
    /\ docFont' = font
    /\ \E token \in {InlineTop.tokens[InlineTop.index]} :
       \E strong \in {InlineTop.strong \/ type = "strong"} :
          IF token.tokens # <<>>
          THEN /\ inlineStack' = Append(Advanced, Frame(token.tokens, strong))
               /\ UNCHANGED runs
          ELSE /\ inlineStack' = Advanced
               /\ runs' = Append(runs, Run(token.text, font, strong))
    /\ UNCHANGED nonInlineVars

RenderStrong == RenderSpan("strong", Bold)

RenderEm == RenderSpan("em", Oblique)

RenderLink == RenderSpan("link", Regular)

RenderDefault ==
    /\ AtToken("codespan")
    /\ runs' = Append(runs, Run(InlineTop.tokens[InlineTop.index].text, Regular, InlineTop.strong))
    /\ docFont' = Regular
    /\ inlineStack' = Advanced
    /\ UNCHANGED nonInlineVars

\* The forEach of the innermost call is over: the call returns.
ReturnInline ==
    /\ inlineStack # <<>>
    /\ InlineTop.index > Len(InlineTop.tokens)
    /\ inlineStack' = SubSeq(inlineStack, 1, Len(inlineStack) - 1)
    /\ UNCHANGED <<nonInlineVars, docFont, runs>>

InlineNext ==
    \/ RenderText
    \/ RenderStrong
    \/ RenderEm
    \/ RenderLink
    \/ RenderDefault
    \/ ReturnInline

InlineSpec == InlineInit /\ [][InlineNext]_vars

\* C27: text inside an inline bold span, a strong token or a pair of "**"
\* markers, is drawn in the bold face and text outside bold spans is not,
\* including when the span is a parsed strong token inside a paragraph.
C27_BoldSpansDrawnBold ==
    \A i \in DOMAIN runs : runs[i].strong <=> runs[i].font = Bold

(***************************************************************************)
(* The vertical cursor of generatePDF (report.ts).  The document is made   *)
(* with the default page of the library (792 points high) and margins of   *)
(* 50 points.  A section header is drawn by drawCardSectionHeader in three *)
(* steps: ensureSpaceForSection, the rule above the bar, and the bar with  *)
(* its title.  A markdown heading of the appendix is one doc.text call     *)
(* that follows the check renderMarkdownToPDF makes before every token.    *)
(* What is drawn between two headers (text, tables, gaps) leaves the       *)
(* cursor anywhere: text continues on a new page when a page is full, the  *)
(* rows of a table and moveDown do not.                                    *)
(***************************************************************************)
PageHeight == 792
MARGIN == 50
MIN_SPACE_BEFORE_SECTION == 140
SECTION_HEADER_HEIGHT == 28
TokenSpace == 100
RuleFrom == 80
TitleOffset == 8
HeaderGap == 12

MaxPages == 2

\* moveDown(0.4) after the rule, moveDown after a heading: a fraction of
\* the height of a line in the current font.
RuleGaps == {4, 5, 6}
HeadingAdvances == {19, 24}

\* Where the cursor can be left: at the top of a page, around the position
\* from which a rule is drawn, in the middle of a page, on both sides of
\* the two page-break thresholds, at the bottom margin and below the page.
CursorPositions ==
    {MARGIN, RuleFrom, RuleFrom + 1, 300,
     PageHeight - MIN_SPACE_BEFORE_SECTION, PageHeight - MIN_SPACE_BEFORE_SECTION + 1,
     PageHeight - TokenSpace, PageHeight - TokenSpace + 1,
     PageHeight - MARGIN, PageHeight + HeaderGap}

CardSections == <<"summary", "keyValues", "keyFindings", "recommendations",
                  "questions", "appendix">>

\* The sections that can follow a section: Key Values is drawn only when
\* the report has key values, the appendix only when it has a full report.
CardSectionsAfter(section, hasAppendix) ==
    CASE section = "summary" -> {"keyValues", "keyFindings"}
      [] section = "keyValues" -> {"keyFindings"}
      [] section = "keyFindings" -> {"recommendations"}
      [] section = "recommendations" -> {"questions"}
      [] section = "questions" -> IF hasAppendix THEN {"appendix"} ELSE {"none"}

ensureSpaceForSectionNever(y) == FALSE

\* ensureSpaceForSection: whether doc.addPage() is called.
ensureSpaceForSection(y) == y > PageHeight - MIN_SPACE_BEFORE_SECTION

\* The check renderMarkdownToPDF makes before every token.
TokenNeedsPage(y) == y > PageHeight - TokenSpace

\* Only the header of the AI Summary is drawn with skipRule.
skipRule(section) == section = "summary"

Layout(at, section, left, from, fromPage) ==
    [at |-> at, section |-> section, left |-> left, from |-> from, fromPage |-> fromPage]

\* history: a part of a header, the page and the position it was drawn at,
\* and the page and the cursor when the drawing of the header was begun.
Part(part, page, y, layout) ==
    [part |-> part, page |-> page, y |-> y, from |-> layout.from, fromPage |-> layout.fromPage]

PageInit ==
    /\ BackendIdle
    /\ InlineIdle
    /\ docY \in CursorPositions
    /\ pageNo = 1
    /\ \E left \in 0..MaxTokens : layoutPc = Layout("header", "summary", left, 0, 0)
    /\ placed = <<>>

nonPageVars == <<configVars, timerVars, pipelineVars, pdfVars, storeVars, inlineVars, rendered,
                 pc, analysisNo, messages, attempts, primaryErr, result, raisedErr,
                 producer, cause, auditLog, response>>

\* drawCardSectionHeader is entered: ensureSpaceForSection.
EnsureSpace ==
    /\ layoutPc.at = "header"
    /\ IF ensureSpaceForSection(docY)
       THEN /\ pageNo' = pageNo + 1
            /\ docY' = MARGIN
       ELSE UNCHANGED <<pageNo, docY>>
    /\ layoutPc' = [layoutPc EXCEPT !.at = "rule", !.from = docY, !.fromPage = pageNo]
    /\ placed' = <<>>
    /\ UNCHANGED nonPageVars

\* if (!skipRule && doc.y > 80) { the rule; moveDown(0.4) }
DrawRule ==
    /\ layoutPc.at = "rule"
    /\ IF ~skipRule(layoutPc.section) /\ docY > RuleFrom
       THEN /\ placed' = Append(placed, Part("rule", pageNo, docY, layoutPc))
            /\ \E gap \in RuleGaps : docY' = docY + gap
       ELSE UNCHANGED <<placed, docY>>
    /\ layoutPc' = [layoutPc EXCEPT !.at = "bar"]
    /\ UNCHANGED <<nonPageVars, pageNo>>

\* The bar at y, the title at y + 8, and doc.y = y + 28 + 12.
DrawBar ==
    /\ layoutPc.at = "bar"
    /\ placed' = placed \o <<Part("bar", pageNo, docY, layoutPc),
                             Part("title", pageNo, docY + TitleOffset, layoutPc)>>
    /\ docY' = docY + SECTION_HEADER_HEIGHT + HeaderGap
    /\ layoutPc' = [layoutPc EXCEPT !.at = "content"]
    /\ UNCHANGED <<nonPageVars, pageNo>>

\* Where drawing leaves the cursor: further down the page, or on the next
\* page when text ran over the bottom of this one.
ContentDrawn ==
    \E y \in CursorPositions :
    \E turned \in BOOLEAN :
        /\ IF turned THEN pageNo < MaxPages ELSE y >= docY
        /\ docY' = y
        /\ pageNo' = IF turned THEN pageNo + 1 ELSE pageNo

\* The content of a section of the report, up to the next header.
DrawContent ==
    /\ layoutPc.at = "content"
    /\ layoutPc.section # "appendix"
    /\ ContentDrawn
    /\ \E next \in CardSectionsAfter(layoutPc.section, layoutPc.left > 0) :
          layoutPc' = [layoutPc EXCEPT
                          !.at = IF next = "none" THEN "done"
                                 ELSE IF next = "appendix" THEN "addPage" ELSE "header",
                          !.section = next]
    /\ UNCHANGED <<nonPageVars, placed>>

\* if (report.fullReport) { doc.addPage(); drawCardSectionHeader(...) }
AppendixPage ==
    /\ layoutPc.at = "addPage"
    /\ pageNo' = pageNo + 1
    /\ docY' = MARGIN
    /\ layoutPc' = [layoutPc EXCEPT !.at = "header"]
    /\ UNCHANGED <<nonPageVars, placed>>

\* doc.moveDown(0.3) after the header of the appendix, then the tokens.
StartTokens ==
    /\ layoutPc.at = "content"
    /\ layoutPc.section = "appendix"
    /\ \E gap \in RuleGaps : docY' = docY + gap
    /\ layoutPc' = [layoutPc EXCEPT !.at = "token"]
    /\ UNCHANGED <<nonPageVars, pageNo, placed>>

\* tokens.forEach: if (doc.y > doc.page.height - 100) doc.addPage()
CheckToken ==
    /\ layoutPc.at = "token"
    /\ IF layoutPc.left = 0
       THEN /\ layoutPc' = [layoutPc EXCEPT !.at = "done"]
            /\ UNCHANGED <<pageNo, docY, placed>>
       ELSE /\ IF TokenNeedsPage(docY)
               THEN /\ pageNo' = pageNo + 1
                    /\ docY' = MARGIN
               ELSE UNCHANGED <<pageNo, docY>>
            /\ layoutPc' = [layoutPc EXCEPT !.at = "draw", !.from = docY, !.fromPage = pageNo]
            /\ placed' = <<>>
    /\ UNCHANGED nonPageVars

\* case 'heading': the text of the heading and moveDown(0.5).
DrawHeading ==
    /\ layoutPc.at = "draw"
    /\ placed' = <<Part("heading", pageNo, docY, layoutPc)>>
    /\ \E advance \in HeadingAdvances : docY' = docY + advance
    /\ layoutPc' = [layoutPc EXCEPT !.at = "token", !.left = @ - 1]
    /\ UNCHANGED <<nonPageVars, pageNo>>

\* Any other token.
DrawBlock ==
    /\ layoutPc.at = "draw"
    /\ ContentDrawn
    /\ layoutPc' = [layoutPc EXCEPT !.at = "token", !.left = @ - 1]
    /\ UNCHANGED <<nonPageVars, placed>>

PageNext ==
    \/ EnsureSpace
    \/ DrawRule
    \/ DrawBar
    \/ DrawContent
    \/ AppendixPage
    \/ StartTokens
    \/ CheckToken
    \/ DrawHeading
    \/ DrawBlock

PageSpec == PageInit /\ [][PageNext]_vars

\* The space a header needs below the cursor it is begun at.
SpaceFor(part) == IF part = "heading" THEN TokenSpace ELSE MIN_SPACE_BEFORE_SECTION

\* C21: whenever the cursor is within the fixed margin of the page bottom
\* when a section header is begun, a new page is started before any part of
\* the header is drawn; every part of the header is on one page, the header
\* starts at a position outside that margin, and the bar ends above the
\* bottom margin of the page.
C21_PageBreakBeforeHeader ==
    \A i \in DOMAIN placed :
        /\ placed[i].from > PageHeight - SpaceFor(placed[i].part)
               => placed[i].page = placed[i].fromPage + 1
        /\ placed[i].page = placed[1].page
        /\ placed[1].y <= PageHeight - SpaceFor(placed[1].part)
        /\ placed[i].part = "bar" => placed[i].y + SECTION_HEADER_HEIGHT <= PageHeight - MARGIN

\* A header begun within the margin was drawn whole at the top of the next
\* page.
C21_Witness ==
    /\ Len(placed) = 2
    /\ placed[1].part = "bar"
    /\ placed[2].part = "title"
    /\ placed[1].from > PageHeight - MIN_SPACE_BEFORE_SECTION
    /\ placed[1].page = placed[1].fromPage + 1
    /\ placed[1].y = MARGIN

(***************************************************************************)
(* Rendering the same report twice.                                        *)
(***************************************************************************)
\* Nothing threw while the document was drawn: the promise resolved and the
\* appendix was not redrawn as plain text.
DrewWithoutException(drawing) ==
    \A j \in DOMAIN drawing : drawing[j].kind # "plain"

====
